---- MODULE Spec2Model ----
(***************************************************************************)
(* Event-driven tumor growth engine of tumopp: Tissue (occupancy index,    *)
(* event queue, history), Cell (genealogy record) and Simulation::run.     *)
(* Times are naturals; Inf stands for an infinite waiting time.            *)
(* Probabilities are counted in units of 1/ProbUnit.                       *)
(***************************************************************************)
EXTENDS Integers, Sequences, FiniteSets, TLC

VARIABLES
    cells,            \* heap of Cell objects: handle (shared_ptr) -> Cell
    rates,            \* heap of EventRates objects: handle (shared_ptr) -> EventRates
    extant_cells_,    \* Tissue::extant_cells_ : set of handles, keyed by coord
    queue_,           \* Tissue::queue_ : sequence of <<time, handle>>, ordered by time
    history_,         \* Tissue::history_ : sequence of handles
    drivers_,         \* Tissue::drivers_ : sequence of lines <<id, trait, s>>
    time_,            \* Tissue::time_
    id_tail_,         \* Tissue::id_tail_
    pc,               \* position of the caller / of the running method
    caller,           \* which public method started the running grow loop
    success,          \* return value of the last grow call
    max_size,         \* argument of the running grow call
    max_time,         \* argument of the running grow call
    mutation_timing,  \* argument (local copy) of the running grow call
    conf,             \* options fixed at construction
    runtime_error,    \* the std::runtime_error the constructor has thrown
    sfmt64,           \* wtl::sfmt64(): the seeded stream and the place of the next draw
    twin,             \* the second of two runs replayed side by side
    snapshots_,       \* Tissue::snapshots_ : sequence of the blocks appended
    recording_early_growth,  \* argument of the running grow call
    frame             \* locals of the running push, stroll, insert_adjacent or migrate

vars == <<cells, rates, extant_cells_, queue_, history_, drivers_, time_, id_tail_, pc, caller,
          success, max_size, max_time, mutation_timing, conf, runtime_error, sfmt64, twin, frame,
          snapshots_, recording_early_growth>>

-----------------------------------------------------------------------------
(* Bounds of the model *)

MaxId == 5          \* no division is started once id_tail_ + 2 would exceed it
MaxDt == 2          \* finite waiting times are drawn from 0..MaxDt
MaxTime == 3        \* finite event times above it are not scheduled
MaxPush == 8        \* fuel of the displacement loops (more steps than cells)
MaxRates == 9       \* no plateau or treatment once rates holds that many objects
MaxSnapshots == 3    \* grow is not called to record once snapshots_ holds this many blocks
MaxMutants == 1     \* the Poisson draws of neutral mutations are 0..MaxMutants
MaxSamples == 2     \* segregating sites are written for up to that many sampled cells
MaxDist == 1        \* no cell is moved further from the origin (graph distance)

Inf == 1000         \* std::numeric_limits<double>::infinity()
DBL_MAX == 999      \* std::numeric_limits<double>::max()
SIZE_MAX == 1000    \* std::numeric_limits<size_t>::max()
ProbUnit == 2       \* a probability p is stored as p * ProbUnit

NoCell == 0         \* null shared_ptr<Cell>

-----------------------------------------------------------------------------
(* Arithmetic on times: doubles with infinity *)

TAdd(a, b) == IF a >= DBL_MAX \/ b >= DBL_MAX THEN Inf ELSE a + b

Range(s) == {s[i] : i \in DOMAIN s}

-----------------------------------------------------------------------------
(* Lattice geometry (coord.hpp) *)

Abs(x) == IF x < 0 THEN -x ELSE x

\* lexicographic order of std::next_permutation
LexLess(a, b) ==
    \E i \in DOMAIN a : a[i] < b[i] /\ \A j \in 1..(i - 1) : a[j] = b[j]

RECURSIVE SortLex(_)
SortLex(S) ==
    IF S = {} THEN <<>>
    ELSE LET m == CHOOSE m \in S : \A x \in S \ {m} : LexLess(m, x)
         IN  <<m>> \o SortLex(S \ {m})

\* do { push_back(v) } while (std::next_permutation(v)): v and every
\* arrangement of its elements after v, in lexicographic order
next_permutations(v) ==
    LET n == Len(v)
        count(s, x) == Cardinality({i \in 1..n : s[i] = x})
    IN  SortLex({p \in [1..n -> Range(v)] :
                    /\ \A x \in Range(v) : count(p, x) = count(v, x)
                    /\ ~LexLess(p, v)})

\* a Moore neighborhood whose zero vector is not skipped
Moore_KeepZero(d) ==
    LET r == <<-1, 0, 1>>
        at(k) == IF d = 2
                 THEN <<r[((k - 1) \div 3) + 1], r[((k - 1) % 3) + 1]>>
                 ELSE <<r[((k - 1) \div 9) + 1], r[(((k - 1) \div 3) % 3) + 1],
                        r[((k - 1) % 3) + 1]>>
        total == IF d = 2 THEN 9 ELSE 27
    IN  [dimensions |-> d,
         max_neighbors_ |-> IF d = 2 THEN 3 * 3 - 1 ELSE 3 * 3 * 3 - 1,
         directions_ |-> [k \in 1..total |-> at(k)]]

\* Neumann::Neumann(d)
Neumann(d) ==
    [dimensions |-> d,
     max_neighbors_ |-> 2 * d,
     directions_ |->
        next_permutations([i \in 1..d |-> IF i = d THEN 1 ELSE 0]) \o
        next_permutations([i \in 1..d |-> IF i = 1 THEN -1 ELSE 0])]

\* Moore::Moore(d): the loops over x, y (and z) in {-1, 0, 1}, the zero
\* vector skipped
Moore(d) ==
    LET r == <<-1, 0, 1>>
        at(k) == IF d = 2
                 THEN <<r[((k - 1) \div 3) + 1], r[((k - 1) % 3) + 1]>>
                 ELSE <<r[((k - 1) \div 9) + 1], r[(((k - 1) \div 3) % 3) + 1],
                        r[((k - 1) % 3) + 1]>>
        total == IF d = 2 THEN 9 ELSE 27
        zero(v) == \A i \in DOMAIN v : v[i] = 0
    IN  [dimensions |-> d,
         max_neighbors_ |-> IF d = 2 THEN 3 * 3 - 1 ELSE 3 * 3 * 3 - 1,
         directions_ |-> SelectSeq([k \in 1..total |-> at(k)],
                                   LAMBDA v : ~zero(v))]

\* Hexagonal::Hexagonal(d)
Hexagonal(d) ==
    LET perms == next_permutations(<<-1, 0, 1>>)
    IN  [dimensions |-> d,
         max_neighbors_ |-> 6 * (d - 1),
         directions_ |->
            IF d = 2
            THEN [k \in DOMAIN perms |-> <<perms[k][1], perms[k][2]>>]
            ELSE [k \in DOMAIN perms |-> <<perms[k][1], perms[k][2], 0>>] \o
                 << <<0, 0, -1>>, <<1, 0, -1>>, <<1, -1, -1>>,
                    <<0, 0, 1>>, <<-1, 0, 1>>, <<-1, 1, 1>> >>]

\* the three objects Tissue::init_coord constructs, for each dimension
Neumann2D == Neumann(2)
Moore2D == Moore(2)
Hexagonal2D == Hexagonal(2)
Neumann3D == Neumann(3)
Moore3D == Moore(3)
Hexagonal3D == Hexagonal(3)

NeumannDirections == << <<0, 1>>, <<1, 0>>, <<-1, 0>>, <<0, -1>> >>

MooreDirections ==
    << <<-1, -1>>, <<-1, 0>>, <<-1, 1>>, <<0, -1>>, <<0, 1>>,
       <<1, -1>>, <<1, 0>>, <<1, 1>> >>

HexagonalDirections ==
    << <<-1, 0>>, <<-1, 1>>, <<0, -1>>, <<0, 1>>, <<1, -1>>, <<1, 0>> >>

\* coord_func_->directions() after Tissue::init_coord
directions(coordinate) ==
    IF conf.dimensions = 2
    THEN CASE coordinate = "neumann" -> NeumannDirections
           [] coordinate = "moore" -> MooreDirections
           [] coordinate = "hex" -> HexagonalDirections
    ELSE CASE coordinate = "neumann" -> Neumann3D.directions_
           [] coordinate = "moore" -> Moore3D.directions_
           [] coordinate = "hex" -> Hexagonal3D.directions_

DirectionSet == Range(directions(conf.coordinate))

VAdd(v, d) == [i \in DOMAIN v |-> v[i] + d[i]]

neighbors(v) == {VAdd(v, d) : d \in DirectionSet}

origin == [i \in 1..conf.dimensions |-> 0]

MaxOf(S) == CHOOSE m \in S : \A x \in S : x <= m

\* Neumann: Manhattan; Moore: Chebyshev; Hexagonal: the largest of the
\* absolute components and of |v0 + v1| (and |v0 + v2| in three dimensions)
graph_distance(coordinate, v) ==
    CASE coordinate = "neumann" ->
           IF Len(v) = 2 THEN Abs(v[1]) + Abs(v[2])
           ELSE Abs(v[1]) + Abs(v[2]) + Abs(v[3])
      [] coordinate = "moore" -> MaxOf({Abs(v[i]) : i \in DOMAIN v})
      [] coordinate = "hex" ->
           MaxOf({Abs(v[i]) : i \in DOMAIN v} \cup {Abs(v[1] + v[2])} \cup
                 (IF Len(v) = 3 THEN {Abs(v[1] + v[3])} ELSE {}))

\* sphere(n): the n sites nearest to the origin, the origin first
sphere(n) == SubSeq(<<origin>> \o directions(conf.coordinate), 1, n)

-----------------------------------------------------------------------------
(* Cell *)

\* bernoulli(p): no draw when p <= 0 or p >= 1
bernoulli(p) ==
    IF p >= ProbUnit THEN {TRUE} ELSE IF p <= 0 THEN {FALSE} ELSE BOOLEAN

\* Cell(coord, id, event_rates): constructor for first cells
FirstCell(v, i, event_rates, omega_max) ==
    [coord |-> v, event_rates |-> event_rates, type |-> "stem",
     proliferation_capacity |-> omega_max % 256,
     next_event |-> "birth", id |-> i, ancestor |-> NoCell,
     time_of_birth |-> 0, time_of_death |-> 0]

\* Cell(const Cell&): next_event_ and time_of_death_ keep their defaults;
\* a stem copy becomes nonstem unless bernoulli(PROB_SYMMETRIC_DIVISION_)
CopyCell(other) ==
    { [other EXCEPT !.next_event = "birth", !.time_of_death = 0,
                    !.type = IF other.type = "stem" /\ ~sym THEN "nonstem"
                             ELSE other.type]
      : sym \in bernoulli(conf.PROB_SYMMETRIC_DIVISION) }

\* Cell::differentiate
differentiate(c) ==
    { [c EXCEPT !.type = IF c.type = "stem" /\ ~sym THEN "nonstem" ELSE c.type]
      : sym \in bernoulli(conf.PROB_SYMMETRIC_DIVISION) }

\* a set_time_of_birth that leaves id_ alone
set_time_of_birth_KeepId(c, t, i, anc) ==
    [c EXCEPT !.time_of_birth = t, !.ancestor = anc,
              !.proliferation_capacity =
                  IF c.type = "nonstem" THEN (@ + 255) % 256 ELSE @]

\* a set_time_of_birth that leaves ancestor_ alone
set_time_of_birth_KeepAncestor(c, t, i, anc) ==
    [c EXCEPT !.time_of_birth = t, !.id = i,
              !.proliferation_capacity =
                  IF c.type = "nonstem" THEN (@ + 255) % 256 ELSE @]

\* Cell::set_time_of_birth
set_time_of_birth(c, t, i, anc) ==
    [c EXCEPT !.time_of_birth = t, !.id = i, !.ancestor = anc,
              !.proliferation_capacity =
                  IF c.type = "nonstem" THEN (@ + 255) % 256 ELSE @]

\* Cell::set_time_of_death
set_time_of_death(c, t) == [c EXCEPT !.time_of_death = t]

\* Finite waiting times the gamma and exponential draws give in this run
FiniteWaits == conf.waits

\* Cell::delta_time, the waiting times: t_birth is drawn while the cell can
\* still divide, t_death and t_migra while their rate is positive; a time
\* that is not drawn stays at infinity (so does a t_birth drawn with a mean of
\* 1 / 0)
t_birth(rs, c) ==
    IF c.proliferation_capacity > 0 /\ rs[c.event_rates].birth_rate > 0
    THEN FiniteWaits ELSE {Inf}

t_death(rs, c) ==
    IF rs[c.event_rates].death_rate > 0 THEN FiniteWaits ELSE {Inf}

t_migra(rs, c) ==
    IF rs[c.event_rates].migra_rate > 0 THEN FiniteWaits ELSE {Inf}

\* Cell::delta_time, the selection: <<dt, next_event>> for the waiting times
\* tb, td, tm and the outcome b of bernoulli(death_prob())
select_event(tb, td, tm, b) ==
    IF tb < td /\ tb < tm
    THEN <<tb, IF b THEN "death" ELSE "birth">>
    ELSE IF td < tm THEN <<td, "death">>
    ELSE <<tm, "migration">>

\* Cell::delta_time: the set of <<dt, next_event>> it can produce; rs is the
\* heap of EventRates
delta_time(rs, c) ==
    { select_event(tb, td, tm, b) :
        tb \in t_birth(rs, c), td \in t_death(rs, c), tm \in t_migra(rs, c),
        b \in bernoulli(rs[c.event_rates].death_prob) }

\* no copy: the cell keeps writing through the handle it shares
CopyRates_Shared(rs, c) == [rates |-> rs, cell |-> c]

\* event_rates_ = std::make_shared<EventRates>(*event_rates_): the heap with
\* the copy, and the cell pointing to it
CopyRates(rs, c) ==
    [rates |-> Append(rs, rs[c.event_rates]),
     cell |-> [c EXCEPT !.event_rates = Len(rs) + 1]]

\* One trial of Cell::mutate on a rate: hit with bernoulli(rate of the driver),
\* the effect s is the mean of the Gaussian (its standard deviation is 0);
\* x is [rates, cell, log], log the lines written so far
MutateBirth(x) ==
    { IF hit
      THEN LET y == CopyRates(x.rates, x.cell)
               h == y.cell.event_rates
               s == conf.MEAN_BIRTH
           IN  [rates |-> [y.rates EXCEPT ![h].birth_rate = @ * (s + 1)],
                cell |-> y.cell,
                log |-> Append(x.log, <<x.cell.id, "birth", s>>)]
      ELSE x : hit \in bernoulli(conf.RATE_BIRTH) }

\* death_rate *= (s += 1.0); death_prob *= (s += 1.0);
MutateDeath(x) ==
    { IF hit
      THEN LET y == CopyRates(x.rates, x.cell)
               h == y.cell.event_rates
               s == conf.MEAN_DEATH
               s1 == s + 1
               s2 == s1 + 1
           IN  [rates |-> [y.rates EXCEPT ![h].death_rate = @ * s1,
                                          ![h].death_prob = @ * s2],
                cell |-> y.cell,
                log |-> Append(x.log, <<x.cell.id, "death", s>>)]
      ELSE x : hit \in bernoulli(conf.RATE_DEATH) }

MutateMigra(x) ==
    { IF hit
      THEN LET y == CopyRates(x.rates, x.cell)
               h == y.cell.event_rates
               s == conf.MEAN_MIGRA
           IN  [rates |-> [y.rates EXCEPT ![h].migra_rate = @ * (s + 1)],
                cell |-> y.cell,
                log |-> Append(x.log, <<x.cell.id, "migra", s>>)]
      ELSE x : hit \in bernoulli(conf.RATE_MIGRA) }

\* Cell::mutate: the [rates, cell, log] it can produce, log the string it
\* returns
mutate(rs, c) ==
    UNION { UNION { MutateMigra(x2) : x2 \in MutateDeath(x1) }
            : x1 \in MutateBirth([rates |-> rs, cell |-> c, log |-> << >>]) }

\* Cell::force_mutate
force_mutate(rs, c) ==
    LET y == CopyRates(rs, c)
        h == y.cell.event_rates
    IN  [rates |-> [y.rates EXCEPT ![h].birth_rate = @ * (1 + conf.MEAN_BIRTH),
                                   ![h].death_rate = @ * (1 + conf.MEAN_DEATH),
                                   ![h].death_prob = @ * (1 + conf.MEAN_DEATH),
                                   ![h].migra_rate = @ * (1 + conf.MEAN_MIGRA)],
         cell |-> y.cell,
         log |-> << <<c.id, "birth", conf.MEAN_BIRTH>>,
                    <<c.id, "death", conf.MEAN_DEATH>>,
                    <<c.id, "migra", conf.MEAN_MIGRA>> >>]

\* a set_cycle_dependent_death that writes through the shared handle
set_cycle_dependent_death_InPlace(rs, c, p, b) ==
    [rates |-> [rs EXCEPT ![c.event_rates].death_prob = p],
     cell |-> [c EXCEPT !.next_event = IF b THEN "death" ELSE "birth"]]

\* Cell::set_cycle_dependent_death, b the value bernoulli(p) returns
set_cycle_dependent_death(rs, c, p, b) ==
    LET y == CopyRates(rs, c)
        h == y.cell.event_rates
    IN  [y EXCEPT !.rates[h].death_prob = p,
                  !.cell.next_event = IF b THEN "death" ELSE "birth"]

\* Cell::increase_death_rate
increase_death_rate(rs, c) ==
    LET y == CopyRates(rs, c)
        h == y.cell.event_rates
    IN  [y EXCEPT !.rates[h].death_rate = rs[c.event_rates].birth_rate]

\* Cell::traceback: ids of the cell and of its ancestors
RECURSIVE AncestorIds(_, _)
AncestorIds(cs, p) ==
    IF p = NoCell THEN {} ELSE {cs[p].id} \cup AncestorIds(cs, cs[p].ancestor)

traceback(cs, h) == {cs[h].id} \cup AncestorIds(cs, cs[h].ancestor)

\* the first loop of Cell::branch_length: <<mrca, length>> after walking the
\* ancestors of other from p
RECURSIVE FindMrca(_, _, _, _)
FindMrca(cs, genealogy, p, length) ==
    IF p = NoCell THEN <<1, length>>
    ELSE IF cs[p].id \in genealogy THEN <<cs[p].id, length>>
    ELSE FindMrca(cs, genealogy, cs[p].ancestor, length + 1)

\* the second loop: it reads p->id_ without testing p; NullDeref when p is null
NullDeref == -1

RECURSIVE CountToMrca(_, _, _, _)
CountToMrca(cs, p, mrca, length) ==
    IF p = NoCell THEN NullDeref
    ELSE IF cs[p].id > mrca THEN CountToMrca(cs, cs[p].ancestor, mrca, length + 1)
    ELSE length

\* a branch_length that starts its count at 1
branch_length_FromOne(cs, a, b) ==
    IF cs[a].id = cs[b].id THEN 0
    ELSE LET m == FindMrca(cs, traceback(cs, a), cs[b].ancestor, 1)
         IN  CountToMrca(cs, cs[a].ancestor, m[1], m[2])

\* Cell::branch_length: this == cs[a], other == cs[b]
branch_length(cs, a, b) ==
    IF cs[a].id = cs[b].id THEN 0
    ELSE LET m == FindMrca(cs, traceback(cs, a), cs[b].ancestor, 2)
         IN  CountToMrca(cs, cs[a].ancestor, m[1], m[2])

-----------------------------------------------------------------------------
(* Occupancy index: unordered_set hashed and compared by coord *)

find(ext, cs, v) == {e \in ext : cs[e].coord = v}

\* insert(x).second
CanInsert(ext, cs, x) == find(ext, cs, cs[x].coord) = {}

\* an insert that adds x even when its site is taken
Insert_Always(ext, cs, x) == ext \cup {x}

\* the set after insert(x)
Insert(ext, cs, x) == IF CanInsert(ext, cs, x) THEN ext \cup {x} ELSE ext

\* an erase that removes nothing
Erase_Nothing(ext, cs, x) == ext

\* the set after erase(x): removes the element with x's coord
Erase(ext, cs, x) == ext \ find(ext, cs, cs[x].coord)

SetCoord(cs, x, v) == [cs EXCEPT ![x].coord = v]

\* a swap_existing that adds x without taking the resident out
swap_existing_KeepResident(cs, ext, x) ==
    [swapped |-> FALSE, extant |-> ext \cup {x}, x |-> x]

\* a swap_existing that reports an empty site without putting x on it
swap_existing_NoInsert(cs, ext, x) ==
    IF CanInsert(ext, cs, x)
    THEN [swapped |-> FALSE, extant |-> ext, x |-> x]
    ELSE LET existing == CHOOSE e \in find(ext, cs, cs[x].coord) : TRUE
             erased == ext \ {existing}
         IN  [swapped |-> TRUE, extant |-> Insert(erased, cs, x), x |-> existing]

\* Tissue::swap_existing: swapped is the return value, x the cell *x names
\* afterwards
swap_existing(cs, ext, x) ==
    IF CanInsert(ext, cs, x)
    THEN [swapped |-> FALSE, extant |-> ext \cup {x}, x |-> x]
    ELSE LET existing == CHOOSE e \in find(ext, cs, cs[x].coord) : TRUE
             erased == ext \ {existing}
         IN  [swapped |-> TRUE, extant |-> Insert(erased, cs, x), x |-> existing]

\* Tissue::steps_to_empty
RECURSIVE steps_to_empty(_, _, _, _)
steps_to_empty(cs, ext, current, direction) ==
    LET next == VAdd(current, direction)
    IN  IF find(ext, cs, next) = {} THEN 1
        ELSE 1 + steps_to_empty(cs, ext, next, direction)

\* a to_nearest_empty that returns the first direction of the shuffled list
to_nearest_empty_First(cs, ext, current) == DirectionSet

\* Tissue::to_nearest_empty: the directions the shuffled scan can return
to_nearest_empty(cs, ext, current) ==
    { d \in DirectionSet :
        \A e \in DirectionSet :
            steps_to_empty(cs, ext, current, d) <= steps_to_empty(cs, ext, current, e) }

\* Tissue::roulette_direction: the first direction of the shuffled list whose
\* ray has length 0 is returned at once; otherwise roulette_select draws among
\* the directions by the weights 1 / l, which leaves every direction of
\* positive weight possible
roulette_direction(cs, ext, current) ==
    LET l(d) == steps_to_empty(cs, ext, current, d)
        immediate == {d \in DirectionSet : l(d) = 0}
    IN  IF immediate # {} THEN immediate
        ELSE {d \in DirectionSet : l(d) >= 1}

\* Tissue::num_empty_neighbors
num_empty_neighbors(cs, ext, v) ==
    Cardinality({d \in DirectionSet : find(ext, cs, VAdd(v, d)) = {}})

\* a push that carries the moving cell to the first empty site and displaces
\* nothing
push_Jump(cs, ext, moving, direction, fuel) ==
    LET n == steps_to_empty(cs, ext, cs[moving].coord, direction)
        target == [i \in DOMAIN direction |->
                      cs[moving].coord[i] + n * direction[i]]
    IN  [cells |-> SetCoord(cs, moving, target), extant |-> ext \cup {moving},
         done |-> TRUE]

\* Tissue::push: done is FALSE when the fuel ran out
RECURSIVE push(_, _, _, _, _)
push(cs, ext, moving, direction, fuel) ==
    LET cs1 == SetCoord(cs, moving, VAdd(cs[moving].coord, direction))
        res == swap_existing(cs1, ext, moving)
    IN  IF res.swapped /\ fuel > 0
        THEN push(cs1, res.extant, res.x, direction, fuel - 1)
        ELSE [cells |-> cs1, extant |-> res.extant, done |-> ~res.swapped]

\* Tissue::push_minimum_drag: the set of results
RECURSIVE push_minimum_drag(_, _, _, _)
push_minimum_drag(cs, ext, moving, fuel) ==
    UNION { LET cs1 == SetCoord(cs, moving, VAdd(cs[moving].coord, d))
                res == swap_existing(cs1, ext, moving)
            IN  IF res.swapped /\ fuel > 0
                THEN push_minimum_drag(cs1, res.extant, res.x, fuel - 1)
                ELSE {[cells |-> cs1, extant |-> res.extant, done |-> ~res.swapped]}
            : d \in to_nearest_empty(cs, ext, cs[moving].coord) }

\* std::shuffle: every order of the elements of S
RECURSIVE shuffle(_)
shuffle(S) ==
    IF S = {} THEN {<< >>}
    ELSE UNION {{<<x>> \o order : order \in shuffle(S \ {x})} : x \in S}

\* the for loop of Tissue::insert_adjacent over the shuffled neighbors
RECURSIVE TryNeighbors(_, _, _, _)
TryNeighbors(cs, ext, moving, order) ==
    IF order = << >> THEN [ok |-> FALSE, cells |-> cs, extant |-> ext]
    ELSE LET cs1 == SetCoord(cs, moving, Head(order))
         IN  IF CanInsert(ext, cs1, moving)
             THEN [ok |-> TRUE, cells |-> cs1, extant |-> Insert(ext, cs1, moving)]
             ELSE TryNeighbors(cs1, ext, moving, Tail(order))

\* an insert_adjacent that leaves the cell on the last site it tried
insert_adjacent_NoRestore(cs, ext, moving) ==
    {TryNeighbors(cs, ext, moving, order) : order \in shuffle(neighbors(cs[moving].coord))}

\* Tissue::insert_adjacent: the set of results
insert_adjacent(cs, ext, moving) ==
    LET present_coord == cs[moving].coord
    IN  { LET r == TryNeighbors(cs, ext, moving, order)
          IN  IF r.ok THEN r
              ELSE [r EXCEPT !.cells = SetCoord(r.cells, moving, present_coord)]
          : order \in shuffle(neighbors(present_coord)) }

\* Tissue::stroll: the set of results
RECURSIVE stroll(_, _, _, _, _)
stroll(cs, ext, moving, direction, fuel) ==
    UNION { IF o.ok
            THEN {[cells |-> o.cells, extant |-> o.extant, done |-> TRUE]}
            ELSE IF fuel = 0
            THEN {[cells |-> o.cells, extant |-> o.extant, done |-> FALSE]}
            ELSE LET cs1 == SetCoord(cs, moving, VAdd(cs[moving].coord, direction))
                     res == swap_existing(cs1, ext, moving)
                 IN  stroll(cs1, res.extant, res.x, direction, fuel - 1)
            : o \in insert_adjacent(cs, ext, moving) }

\* a migrate that leaves the resident of the target site out of the index
migrate_DropResident(cs, ext, moving, v) ==
    LET erased == Erase(ext, cs, moving)
        cs1 == SetCoord(cs, moving, v)
    IN  [cells |-> cs1,
         extant |-> (erased \ find(erased, cs1, v)) \cup {moving}]

\* Tissue::migrate with the drawn neighbor site v
migrate(cs, ext, moving, v) ==
    LET erased == Erase(ext, cs, moving)
        orig_pos == cs[moving].coord
        cs1 == SetCoord(cs, moving, v)
    IN  IF CanInsert(erased, cs1, moving)
        THEN [cells |-> cs1, extant |-> erased \cup {moving}]
        ELSE LET existing == CHOOSE e \in find(erased, cs1, v) : TRUE
                 ext2 == Insert(erased \ {existing}, cs1, moving)
                 cs2 == SetCoord(cs1, existing, orig_pos)
             IN  [cells |-> cs2, extant |-> Insert(ext2, cs2, existing)]

Pushed(r) == [ok |-> TRUE, cells |-> r.cells, extant |-> r.extant, done |-> r.done]

Refused(cs, ext) == [ok |-> FALSE, cells |-> cs, extant |-> ext, done |-> TRUE]

\* The insert function chosen by Tissue::init_insert_function: the set of
\* results of insert(daughter); ok is its return value
insert(cs, ext, daughter) ==
    LET L == conf.local_density_effect
        P == conf.displacement_path
        here == cs[daughter].coord
        random == {Pushed(push(cs, ext, daughter, d, MaxPush)) : d \in DirectionSet}
    IN  CASE L = "const" /\ P = "random" -> random
          [] L = "const" /\ P = "mindrag" ->
                {Pushed(r) : r \in push_minimum_drag(cs, ext, daughter, MaxPush)}
          [] L = "const" /\ P = "minstraight" ->
                {Pushed(push(cs, ext, daughter, d, MaxPush)) :
                    d \in to_nearest_empty(cs, ext, here)}
          [] L = "const" /\ P = "roulette" ->
                {Pushed(push(cs, ext, daughter, d, MaxPush)) :
                    d \in roulette_direction(cs, ext, here)}
          [] L = "const" /\ P = "stroll" ->
                UNION {{Pushed(r) : r \in stroll(cs, ext, daughter, d, MaxPush)} :
                          d \in DirectionSet}
          [] L = "step" /\ P = "random" ->
                IF num_empty_neighbors(cs, ext, here) = 0
                THEN {Refused(cs, ext)} ELSE random
          [] L = "step" /\ P = "mindrag" ->
                {[ok |-> o.ok, cells |-> o.cells, extant |-> o.extant, done |-> TRUE] :
                    o \in insert_adjacent(cs, ext, daughter)}
          [] L = "linear" /\ P = "random" ->
                LET n == num_empty_neighbors(cs, ext, here)
                IN  (IF n > 0 THEN random ELSE {}) \cup
                    (IF n < Cardinality(DirectionSet) THEN {Refused(cs, ext)} ELSE {})
          [] L = "linear" /\ P = "mindrag" ->
                { LET cs1 == SetCoord(cs, daughter, v)
                  IN  [ok |-> CanInsert(ext, cs1, daughter), cells |-> cs1,
                       extant |-> Insert(ext, cs1, daughter), done |-> TRUE]
                  : v \in neighbors(here) }

-----------------------------------------------------------------------------
(* Event queue: multimap<double, shared_ptr<Cell>> *)

\* an emplace that puts the entry ahead of the entries with an equal key
emplace_hint_LowerBound(q, t, x) ==
    LET k == Cardinality({i \in DOMAIN q : q[i][1] < t})
    IN  SubSeq(q, 1, k) \o << <<t, x>> >> \o SubSeq(q, k + 1, Len(q))

\* an emplace that ignores the key and puts the entry first
emplace_hint_Front(q, t, x) == << <<t, x>> >> \o q

\* queue_.emplace_hint(queue_.end(), t, x): behind every entry with key <= t
emplace_hint(q, t, x) ==
    LET k == Cardinality({i \in DOMAIN q : q[i][1] <= t})
    IN  SubSeq(q, 1, k) \o << <<t, x>> >> \o SubSeq(q, k + 1, Len(q))

Queued(q) == {q[i][2] : i \in DOMAIN q}

\* The draws of Tissue::queue_push(x) that stay within the model's time bound
PushDraws(rs, cs, x, now) ==
    { o \in delta_time(rs, cs[x]) : TAdd(now, o[1]) <= MaxTime \/ TAdd(now, o[1]) = Inf }

\* a queue_push that uses the waiting time as the event time (no += time_)
queue_push_NoOffset(st, x, o, now) ==
    [cells |-> [st.cells EXCEPT ![x].next_event = o[2]],
     queue |-> emplace_hint(st.queue, o[1], x)]

\* Tissue::queue_push at time_ = now with draw o = <<dt, next_event>>
queue_push(st, x, o, now) ==
    [cells |-> [st.cells EXCEPT ![x].next_event = o[2]],
     queue |-> emplace_hint(st.queue, TAdd(now, o[1]), x)]

-----------------------------------------------------------------------------
(* Options and arguments the callers choose from *)

Policies ==
    { <<"const", "random">>, <<"const", "mindrag">>, <<"const", "minstraight">>,
      <<"const", "roulette">>, <<"const", "stroll">>, <<"step", "random">>,
      <<"step", "mindrag">>, <<"linear", "random">>, <<"linear", "mindrag">> }

\* cell options left at their defaults: symmetric division only, no driver
Defaults ==
    [dimensions |-> 2, coordinate |-> "neumann",
     PROB_SYMMETRIC_DIVISION |-> ProbUnit,
     MAX_PROLIFERATION_CAPACITY |-> 10,
     RATE_BIRTH |-> 0, RATE_DEATH |-> 0, RATE_MIGRA |-> 0,
     MEAN_BIRTH |-> 0, MEAN_DEATH |-> 0, MEAN_MIGRA |-> 0,
     mutation_timing |-> SIZE_MAX, recording_early_growth |-> 0,
     waits |-> 0..MaxDt]

Rates(b, d, a, m) ==
    [birth_rate |-> b, death_rate |-> d, death_prob |-> a, migra_rate |-> m]

\* the options of a run: those of Tissue, and the calls made on it with
\* their arguments (plateau = 0, treatment = 0: not called)
Options(n, lp, r, ms, mt, pl, tr) ==
    [initial_size |-> n, local_density_effect |-> lp[1], displacement_path |-> lp[2],
     init_event_rates |-> r, max_size |-> ms, max_time |-> mt,
     plateau |-> pl, treatment |-> tr, num_resistant_cells |-> 1] @@ Defaults

\* births and deaths under every insert function, growth only
ConfigsBirthDeath ==
    { [waits |-> 0..1] @@ Options(1, lp, Rates(1, 1, 1, 0), 3, 1, 0, 0) :
        lp \in Policies }

\* births and migrations from two cells under four of the insert functions;
\* births, deaths and migrations from one cell; every waiting time positive
ConfigsMigration ==
    { [waits |-> 1..2] @@ Options(2, lp, Rates(1, 0, 0, 1), 3, 1, 0, 0) :
        lp \in { <<"const", "random">>, <<"const", "mindrag">>,
                 <<"const", "stroll">>, <<"step", "random">> } } \cup
    { [waits |-> 1..2] @@
      Options(1, <<"const", "random">>, Rates(1, 1, 1, 1), 2, 1, 0, 0) }

\* growth followed by plateau and treatment, the waiting times the shortest
\* and the longest
ConfigsCalls ==
    { [waits |-> {0, MaxDt}] @@
      Options(2, <<"const", "random">>, Rates(1, 1, 1, 0), 3, 1, 1, 1) }

\* asymmetric division with one division left to nonstem cells (-p, -r),
\* growth to two cells followed by treatment; with death rate 0 a cell that
\* cannot divide any more has no event to wait for
ConfigsDifferentiation ==
    { [MAX_PROLIFERATION_CAPACITY |-> 1, PROB_SYMMETRIC_DIVISION |-> 1,
       waits |-> IF d = 0 THEN {1} ELSE 0..1] @@
      Options(1, <<"const", "random">>, Rates(1, d, 0, 0), 2, 1, 0, 1) : d \in 0..1 }

\* driver mutations on death, a forced driver once size() exceeds 1
Drivers ==
    [RATE_DEATH |-> 1, MEAN_BIRTH |-> 1, MEAN_DEATH |-> 1, MEAN_MIGRA |-> 1,
     mutation_timing |-> 1, waits |-> 0..1]

ConfigsDrivers ==
    { Drivers @@ Options(1, <<"const", "random">>, Rates(1, 1, 1, 0), 3, 1, 0, 0),
      Drivers @@ Options(1, <<"const", "random">>, Rates(1, 1, 1, 0), 2, 1, 1, 1) }

\* a seeded ball whose origin cell has no empty neighbor, under a step
\* insert function
ConfigsCrowded ==
    { [waits |-> {1}] @@
      Options(5, <<"step", "mindrag">>, Rates(1, 0, 0, 0), 6, 1, 0, 0) }

\* every geometry in two and three dimensions: one division
ConfigsGeometry ==
    { [dimensions |-> d, coordinate |-> c, waits |-> {1}] @@
      Options(1, <<"const", "random">>, Rates(1, 0, 0, 0), 2, 1, 0, 0) :
        d \in 2..3, c \in {"neumann", "moore", "hex"} }

Configs ==
    ConfigsBirthDeath \cup ConfigsMigration \cup ConfigsCalls \cup
    ConfigsDifferentiation \cup ConfigsDrivers \cup ConfigsCrowded \cup
    ConfigsGeometry \cup
    \* births and deaths with a snapshot after every event of the early
    \* growth (--record)
    { [recording_early_growth |-> k, waits |-> 0..1] @@
      Options(1, <<"const", "random">>, Rates(1, 1, 1, 0), 4, 1, 0, 0) :
        k \in 2..3 }

size == Cardinality(extant_cells_)

\* every cell of ext lies within the part of the lattice the model covers
InBox(cs, ext) ==
    \A e \in ext : graph_distance(conf.coordinate, cs[e].coord) <= MaxDist

-----------------------------------------------------------------------------
(* Tissue::Tissue *)

\* the stream of a run whose draws are left open
Unseeded == [seed |-> << >>, i |-> 1]

\* a single run: no second run beside it
NoTwin == [pc |-> "none"]

\* no displacement is running
NoFrame == [method |-> "none"]

\* no exception
NoError == [option |-> "", value |-> << >>, choose_from |-> {}]

\* Tissue::init_coord: swtch.at(coordinate), the message of the error
CoordinateNames == { "neumann", "moore", "hex" }

init_coord(coordinate) ==
    IF coordinate \in CoordinateNames THEN NoError
    ELSE [option |-> "-C", value |-> <<coordinate>>,
          choose_from |-> { <<k>> : k \in CoordinateNames }]

\* an init_insert_function whose unknown displacement path falls back to a
\* default instead of throwing
init_insert_function_Lenient(local_density_effect, displacement_path) ==
    IF local_density_effect \in { lp[1] : lp \in Policies } THEN NoError
    ELSE [option |-> "-L/-P",
          value |-> <<local_density_effect, displacement_path>>,
          choose_from |-> Policies]

\* Tissue::init_insert_function: swtch.at(local_density_effect)
\* .at(displacement_path), the message of the error
init_insert_function(local_density_effect, displacement_path) ==
    IF <<local_density_effect, displacement_path>> \in Policies THEN NoError
    ELSE [option |-> "-L/-P",
          value |-> <<local_density_effect, displacement_path>>,
          choose_from |-> Policies]

\* option values no map of the constructor knows
ConfigsInvalid ==
    LET all == { [coordinate |-> c] @@
                 Options(1, <<l, p>>, Rates(1, 0, 0, 0), 2, 1, 0, 0) :
                   c \in CoordinateNames \cup { "square" },
                   l \in { "const", "step", "linear", "none" },
                   p \in { "random", "mindrag", "minstraight", "roulette",
                           "stroll", "none" } }
    IN  { c \in all : \/ c.coordinate \notin CoordinateNames
                      \/ <<c.local_density_effect, c.displacement_path>>
                            \notin Policies }

\* the state on entry to Tissue::Tissue
Entering(c) ==
    /\ conf = c
    /\ rates = << >>
    /\ cells = << >>
    /\ extant_cells_ = {}
    /\ id_tail_ = 0
    /\ queue_ = << >>
    /\ history_ = << >>
    /\ drivers_ = << >>
    /\ time_ = 0
    /\ pc = "new"
    /\ caller = "none"
    /\ success = FALSE
    /\ max_size = 0
    /\ max_time = 0
    /\ mutation_timing = SIZE_MAX
    /\ runtime_error = NoError
    /\ sfmt64 = Unseeded
    /\ twin = NoTwin
    /\ frame = NoFrame
    /\ snapshots_ = << >>
    /\ recording_early_growth = 0

Init == \E c \in Configs \cup ConfigsInvalid : Entering(c)

\* init_coord, init_insert_function, then the origin cell is made and inserted
TissueCtor ==
    /\ pc = "new"
    /\ LET e1 == init_coord(conf.coordinate)
           e2 == init_insert_function(conf.local_density_effect,
                                      conf.displacement_path)
       IN  IF e1 # NoError \/ e2 # NoError
           THEN /\ runtime_error' = IF e1 # NoError THEN e1 ELSE e2
                /\ pc' = "error"
                /\ UNCHANGED <<cells, rates, extant_cells_, id_tail_>>
           ELSE /\ rates' = << conf.init_event_rates >>
                /\ cells' = << FirstCell(sphere(conf.initial_size)[1], 1, 1,
                                         conf.MAX_PROLIFERATION_CAPACITY) >>
                /\ extant_cells_' = {1}
                /\ id_tail_' = 1
                /\ pc' = "ctor"
                /\ UNCHANGED runtime_error
    /\ UNCHANGED <<queue_, history_, drivers_, time_, caller, success, max_size,
                   max_time, mutation_timing, conf, sfmt64, twin, frame,
                   snapshots_, recording_early_growth>>

\* one pass of the body of the seeding loop, for the mother the iteration
\* over extant_cells_ yields
CtorSeed ==
    /\ pc = "ctor"
    /\ size < conf.initial_size
    /\ \E mother \in extant_cells_ :
       \E d0 \in CopyCell(cells[mother]), a0 \in CopyCell(cells[mother]) :
          LET n == Len(cells)
              daughter == n + 1
              ancestor == n + 2
              a1 == set_time_of_death(a0, 0)
              m1 == set_time_of_birth(cells[mother], 0, id_tail_ + 1, ancestor)
              d1 == set_time_of_birth(d0, 0, id_tail_ + 2, ancestor)
              d2 == [d1 EXCEPT !.coord = sphere(conf.initial_size)[size + 1]]
              cs == [cells EXCEPT ![mother] = m1] \o <<d2, a1>>
          IN  /\ cells' = cs
              /\ history_' = Append(history_, ancestor)
              /\ id_tail_' = id_tail_ + 2
              /\ extant_cells_' = Insert(extant_cells_, cs, daughter)
    /\ UNCHANGED <<drivers_, rates, queue_, time_, pc, caller, success, max_size, max_time,
                   mutation_timing, conf, runtime_error, sfmt64, twin, frame,
                   snapshots_, recording_early_growth>>

\* for (cell: extant_cells_) queue_push(cell), one cell at a time
CtorQueuePush ==
    /\ pc = "ctor"
    /\ size >= conf.initial_size
    /\ \E x \in extant_cells_ \ Queued(queue_) :
       \E o \in PushDraws(rates, cells, x, time_) :
          LET st == queue_push([cells |-> cells, queue |-> queue_], x, o, time_)
          IN  /\ cells' = st.cells
              /\ queue_' = st.queue
              /\ pc' = IF extant_cells_ \subseteq Queued(st.queue) THEN "idle" ELSE "ctor"
    /\ UNCHANGED <<drivers_, rates, extant_cells_, history_, time_, id_tail_, caller, success,
                   max_size, max_time, mutation_timing, conf, runtime_error, sfmt64, twin, frame,
                   snapshots_, recording_early_growth>>

-----------------------------------------------------------------------------
(* Tissue::grow *)

\* the entry the loop takes: queue_.begin()
\* Tissue::snapshots_append: the rows of the extant cells, under time t
snapshots_append(snaps, t, ext, cs) ==
    Append(snaps, [time |-> t, ids |-> {cs[e].id : e \in ext}])

\* if (time_ > time_snapshot) snapshots_append(), before the event is taken;
\* snapshot_interval is left at its default in every run, time_snapshot is
\* infinite
periodic(snaps, now, ext, cs) ==
    IF now > Inf THEN snapshots_append(snaps, now, ext, cs) ELSE snaps

\* a recording that tests the option again after every event
record_early_growth_Restart(snaps, recording, now, ext, cs) ==
    IF Cardinality(ext) < conf.recording_early_growth
    THEN [snapshots |-> snapshots_append(snaps, now, ext, cs),
          recording |-> recording]
    ELSE [snapshots |-> snaps, recording |-> recording]

\* the end of the loop body of grow: if (size() < recording_early_growth)
\* snapshots_append(); else recording_early_growth = 0u
record_early_growth(snaps, recording, now, ext, cs) ==
    IF Cardinality(ext) < recording
    THEN [snapshots |-> snapshots_append(snaps, now, ext, cs),
          recording |-> recording]
    ELSE [snapshots |-> snaps, recording |-> 0]

it == Head(queue_)

mother == it[2]

\* a loop that goes on dispatching while the size has not passed max_size
Dispatching_PastMaxSize ==
    /\ pc = "grow"
    /\ ~(it[1] > max_time \/ size > max_size)

\* the loop goes on to dispatch the event of the entry taken
Dispatching ==
    /\ pc = "grow"
    /\ ~(it[1] > max_time \/ size >= max_size)

\* an exit test with >= on the time
GrowExit_AtMaxTime ==
    /\ pc = "grow"
    /\ it[1] >= max_time \/ size >= max_size
    /\ time_' = it[1]
    /\ success' = TRUE
    /\ pc' = "returned"
    /\ UNCHANGED <<drivers_, cells, rates, extant_cells_, queue_, history_, id_tail_, caller,
                   max_size, max_time, mutation_timing, conf, runtime_error, sfmt64, twin, frame,
                   snapshots_, recording_early_growth>>

\* if (time_ > max_time || extant_cells_.size() >= max_size) break
GrowExit ==
    /\ pc = "grow"
    /\ it[1] > max_time \/ size >= max_size
    /\ time_' = it[1]
    /\ success' = TRUE
    /\ pc' = "returned"
    /\ UNCHANGED <<drivers_, cells, rates, extant_cells_, queue_, history_, id_tail_, caller,
                   max_size, max_time, mutation_timing, conf, runtime_error, sfmt64, twin, frame,
                   snapshots_, recording_early_growth>>

\* next_event == birth and insert(daughter) succeeded
GrowBirth ==
    /\ Dispatching
    /\ cells[mother].next_event = "birth"
    /\ id_tail_ + 2 <= MaxId
    /\ LET now == it[1]
           daughter == Len(cells) + 1
           ancestor == Len(cells) + 2
       IN  \E d0 \in CopyCell(cells[mother]) :
           \E r \in insert(Append(cells, d0), extant_cells_, daughter) :
           /\ r.ok /\ r.done
           /\ InBox(r.cells, r.extant)
           /\ \E a0 \in CopyCell(r.cells[mother]) :
              \E d1 \in differentiate(r.cells[daughter]) :
              LET a1 == set_time_of_death(a0, now)
                  m1 == set_time_of_birth(r.cells[mother], now, id_tail_ + 1, ancestor)
                  d2 == set_time_of_birth(d1, now, id_tail_ + 2, ancestor)
              IN  \E m2 \in mutate(rates, m1) :
                  \E d3 \in mutate(m2.rates, d2) :
                  LET forced == Cardinality(r.extant) > mutation_timing
                      d4 == IF forced THEN force_mutate(d3.rates, d3.cell)
                            ELSE [d3 EXCEPT !.log = << >>]
                      rs == d4.rates
                      cs == [r.cells EXCEPT ![mother] = m2.cell,
                                            ![daughter] = d4.cell] \o <<a1>>
                      st0 == [cells |-> cs, queue |-> Tail(queue_)]
                  IN  \E om \in PushDraws(rs, cs, mother, now) :
                      LET st1 == queue_push(st0, mother, om, now)
                      IN  \E od \in PushDraws(rs, st1.cells, daughter, now) :
                          LET st2 == queue_push(st1, daughter, od, now)
                          IN  /\ cells' = st2.cells
                              /\ rates' = rs
                              /\ drivers_' = drivers_ \o m2.log \o d3.log \o d4.log
                              /\ queue_' = st2.queue
                              /\ extant_cells_' = r.extant
                              /\ history_' = Append(history_, ancestor)
                              /\ id_tail_' = id_tail_ + 2
                              /\ mutation_timing' =
                                     IF forced THEN SIZE_MAX ELSE mutation_timing
                              /\ time_' = now
                              /\ LET rec == record_early_growth(
                                                periodic(snapshots_, now,
                                                         extant_cells_, cells),
                                                recording_early_growth, now,
                                                r.extant, st2.cells)
                                 IN  /\ snapshots_' = rec.snapshots
                                     /\ recording_early_growth' = rec.recording
    /\ UNCHANGED <<pc, caller, success, max_size, max_time, conf, runtime_error, sfmt64, twin, frame>>

\* next_event == birth and insert(daughter) failed: the mother is rescheduled
GrowBirthFail ==
    /\ Dispatching
    /\ cells[mother].next_event = "birth"
    /\ LET now == it[1]
           daughter == Len(cells) + 1
       IN  \E d0 \in CopyCell(cells[mother]) :
           \E r \in insert(Append(cells, d0), extant_cells_, daughter) :
           /\ ~r.ok
           /\ LET cs == SubSeq(r.cells, 1, Len(cells))
              IN  \E om \in PushDraws(rates, cs, mother, now) :
                  LET st == queue_push([cells |-> cs, queue |-> Tail(queue_)],
                                       mother, om, now)
                  IN  /\ cells' = st.cells
                      /\ queue_' = st.queue
                      /\ extant_cells_' = r.extant
                      /\ time_' = now
                      /\ snapshots_' = periodic(snapshots_, now, extant_cells_, cells)
    /\ UNCHANGED <<drivers_, rates, history_, id_tail_, pc, caller, success, max_size,
                   max_time, mutation_timing, conf, runtime_error, sfmt64, twin, frame,
                   recording_early_growth>>

\* a death that erases the cell without putting it into history_
GrowDeath_NoArchive ==
    /\ Dispatching
    /\ cells[mother].next_event = "death"
    /\ LET now == it[1]
           cs == [cells EXCEPT ![mother] = set_time_of_death(@, now)]
           ext == Erase(extant_cells_, cs, mother)
       IN  /\ cells' = cs
           /\ history_' = history_
           /\ extant_cells_' = ext
           /\ queue_' = Tail(queue_)
           /\ time_' = now
           /\ pc' = IF ext = {} THEN "returned" ELSE "grow"
           /\ success' = FALSE
           /\ LET snaps == periodic(snapshots_, now, extant_cells_, cells)
                  rec == IF ext = {}
                         THEN [snapshots |-> snaps,
                               recording |-> recording_early_growth]
                         ELSE record_early_growth(snaps, recording_early_growth,
                                                  now, ext, cs)
              IN  /\ snapshots_' = rec.snapshots
                  /\ recording_early_growth' = rec.recording
    /\ UNCHANGED <<drivers_, rates, id_tail_, caller, max_size, max_time, mutation_timing,
                   conf, runtime_error, sfmt64, twin, frame>>

\* next_event == death
GrowDeath ==
    /\ Dispatching
    /\ cells[mother].next_event = "death"
    /\ LET now == it[1]
           cs == [cells EXCEPT ![mother] = set_time_of_death(@, now)]
           ext == Erase(extant_cells_, cs, mother)
       IN  /\ cells' = cs
           /\ history_' = Append(history_, mother)
           /\ extant_cells_' = ext
           /\ queue_' = Tail(queue_)
           /\ time_' = now
           /\ pc' = IF ext = {} THEN "returned" ELSE "grow"
           /\ success' = FALSE
           /\ LET snaps == periodic(snapshots_, now, extant_cells_, cells)
                  rec == IF ext = {}
                         THEN [snapshots |-> snaps,
                               recording |-> recording_early_growth]
                         ELSE record_early_growth(snaps, recording_early_growth,
                                                  now, ext, cs)
              IN  /\ snapshots_' = rec.snapshots
                  /\ recording_early_growth' = rec.recording
    /\ UNCHANGED <<drivers_, rates, id_tail_, caller, max_size, max_time, mutation_timing,
                   conf, runtime_error, sfmt64, twin, frame>>

\* next_event == migration
GrowMigrate ==
    /\ Dispatching
    /\ cells[mother].next_event = "migration"
    /\ LET now == it[1]
       IN  \E v \in neighbors(cells[mother].coord) :
           LET r == migrate(cells, extant_cells_, mother, v)
           IN  /\ InBox(r.cells, r.extant)
               /\ \E om \in PushDraws(rates, r.cells, mother, now) :
                  LET st == queue_push([cells |-> r.cells, queue |-> Tail(queue_)],
                                       mother, om, now)
                  IN  /\ cells' = st.cells
                      /\ queue_' = st.queue
                      /\ extant_cells_' = r.extant
                      /\ time_' = now
                      /\ LET rec == record_early_growth(
                                        periodic(snapshots_, now, extant_cells_,
                                                 cells),
                                        recording_early_growth, now, r.extant,
                                        st.cells)
                         IN  /\ snapshots_' = rec.snapshots
                             /\ recording_early_growth' = rec.recording
    /\ UNCHANGED <<drivers_, rates, history_, id_tail_, pc, caller, success, max_size,
                   max_time, mutation_timing, conf, runtime_error, sfmt64, twin, frame>>

\* a caller starts grow(ms, mt, ..., mut) on a tissue with cells
CallGrow ==
    /\ pc = "idle"
    /\ size > 0
    /\ max_size' = conf.max_size
    /\ max_time' = conf.max_time
    /\ mutation_timing' = conf.mutation_timing
    /\ success' = FALSE
    /\ caller' = "grow"
    /\ pc' = "grow"
    /\ conf.recording_early_growth > 0 => Len(snapshots_) < MaxSnapshots
    /\ recording_early_growth' = conf.recording_early_growth
    /\ snapshots_' = IF conf.recording_early_growth > 0
                     THEN snapshots_append(snapshots_, time_, extant_cells_, cells)
                     ELSE snapshots_
    /\ UNCHANGED <<drivers_, cells, rates, extant_cells_, queue_, history_, time_, id_tail_, conf, runtime_error, sfmt64, twin, frame>>

-----------------------------------------------------------------------------
(* Tissue::plateau *)

\* a plateau that hands the run's mutation_timing on to grow
CallPlateau_WithTiming ==
    /\ pc = "idle"
    /\ size > 0
    /\ Len(rates) < MaxRates
    /\ conf.plateau > 0
    /\ max_time' = TAdd(time_, conf.plateau)
    /\ max_size' = SIZE_MAX
    /\ queue_' = << >>
    /\ mutation_timing' = conf.mutation_timing
    /\ success' = FALSE
    /\ caller' = "plateau"
    /\ pc' = "plateau"
    /\ UNCHANGED <<drivers_, cells, rates, extant_cells_, history_, time_, id_tail_,
                   conf, runtime_error, sfmt64, twin, frame,
                   snapshots_, recording_early_growth>>

\* a plateau that keeps the old entries of the queue
CallPlateau_KeepQueue ==
    /\ pc = "idle"
    /\ size > 0
    /\ Len(rates) < MaxRates
    /\ conf.plateau > 0
    /\ max_time' = TAdd(time_, conf.plateau)
    /\ max_size' = SIZE_MAX
    /\ mutation_timing' = SIZE_MAX
    /\ success' = FALSE
    /\ caller' = "plateau"
    /\ pc' = IF queue_ = << >> THEN "plateau" ELSE "grow"
    /\ UNCHANGED <<drivers_, cells, rates, extant_cells_, queue_, history_, time_,
                   id_tail_, conf, runtime_error, sfmt64, twin, frame,
                   snapshots_, recording_early_growth>>

\* queue_.clear()
CallPlateau ==
    /\ pc = "idle"
    /\ size > 0
    /\ Len(rates) < MaxRates
    /\ conf.plateau > 0
    /\ max_time' = TAdd(time_, conf.plateau)
    /\ max_size' = SIZE_MAX
    /\ queue_' = << >>
    /\ mutation_timing' = SIZE_MAX
    /\ success' = FALSE
    /\ caller' = "plateau"
    /\ pc' = "plateau"
    /\ UNCHANGED <<drivers_, cells, rates, extant_cells_, history_, time_, id_tail_,
                   conf, runtime_error, sfmt64, twin, frame,
                   snapshots_, recording_early_growth>>

\* the body of the loop over extant_cells_, one cell at a time; grow starts
\* after the last one
PlateauPush ==
    /\ pc = "plateau"
    /\ \E p \in extant_cells_ \ Queued(queue_) :
          LET y == increase_death_rate(rates, cells[p])
              cs == [cells EXCEPT ![p] = y.cell]
          IN  \E o \in PushDraws(y.rates, cs, p, time_) :
              LET st == queue_push([cells |-> cs, queue |-> queue_], p, o, time_)
              IN  /\ cells' = st.cells
                  /\ rates' = y.rates
                  /\ queue_' = st.queue
                  /\ pc' = IF extant_cells_ \subseteq Queued(st.queue)
                           THEN "grow" ELSE "plateau"
    /\ UNCHANGED <<drivers_, extant_cells_, history_, time_, id_tail_, caller, success,
                   max_size, max_time, mutation_timing, conf, runtime_error, sfmt64, twin, frame,
                   snapshots_, recording_early_growth>>

-----------------------------------------------------------------------------
(* Tissue::treatment *)

\* p->set_cycle_dependent_death(death_prob) for the cells of marked, deaths
\* those for which its bernoulli(p) returns true
RECURSIVE MarkCells(_, _, _, _)
MarkCells(st, marked, death_prob, deaths) ==
    IF marked = {} THEN st
    ELSE LET p == CHOOSE m \in marked : \A n \in marked : m <= n
             y == set_cycle_dependent_death(st.rates, st.cells[p], death_prob,
                                            p \in deaths)
         IN  MarkCells([rates |-> y.rates, cells |-> [st.cells EXCEPT ![p] = y.cell]],
                       marked \ {p}, death_prob, deaths)

\* a margin of ten cells whatever the number of resistant cells
margin_Ten(num_resistant_cells) == 10

\* a margin of ten cells for each resistant cell and no more
margin_NoBase(num_resistant_cells) == 10 * num_resistant_cells

\* const size_t margin = 10u * num_resistant_cells + 10u
margin(num_resistant_cells) == 10 * num_resistant_cells + 10

\* the marking step: the cells of the queue are shuffled, all but the first
\* num_resistant_cells get set_cycle_dependent_death(death_prob); then grow
\* starts
CallTreatment ==
    /\ pc = "idle"
    /\ size > 0
    /\ Len(rates) < MaxRates
    /\ conf.treatment > 0
    /\ LET death_prob == conf.treatment
           num_resistant_cells == conf.num_resistant_cells
           original_size == size
           queued == Queued(queue_)
       IN  \E resistant \in SUBSET queued :
           /\ Cardinality(resistant) =
                  IF num_resistant_cells < original_size
                  THEN num_resistant_cells ELSE original_size
           /\ \E deaths \in SUBSET (queued \ resistant) :
              /\ \A p \in queued \ resistant : (p \in deaths) \in bernoulli(death_prob)
              /\ LET st == MarkCells([rates |-> rates, cells |-> cells],
                                     queued \ resistant, death_prob, deaths)
                 IN  /\ cells' = st.cells
                     /\ rates' = st.rates
           /\ max_size' = original_size + margin(num_resistant_cells)
           /\ max_time' = DBL_MAX
    /\ mutation_timing' = SIZE_MAX
    /\ success' = FALSE
    /\ caller' = "treatment"
    /\ pc' = "grow"
    /\ UNCHANGED <<drivers_, extant_cells_, queue_, history_, time_, id_tail_, conf, runtime_error, sfmt64, twin, frame,
                   snapshots_, recording_early_growth>>

-----------------------------------------------------------------------------
(* Neutral mutations and segregating sites *)

\* the values std::poisson_distribution<unsigned>(mean) can return
poisson(mean) == IF mean = 0 THEN {0} ELSE 0..MaxMutants

\* a generate_neutral_mutations that numbers the divisions from 0
generate_neutral_mutations_FromZero(mu, has_at_least_1_mutation_per_division) ==
    UNION { { (IF has_at_least_1_mutation_per_division
               THEN [i \in 1..id_tail_ |-> i - 1] ELSE << >>) \o drawn :
              drawn \in [1..num_mutants -> 1..id_tail_] } :
            num_mutants \in poisson(mu * id_tail_) }

\* Tissue::generate_neutral_mutations: the vectors it can return
generate_neutral_mutations(mu, has_at_least_1_mutation_per_division) ==
    UNION { { (IF has_at_least_1_mutation_per_division
               THEN [i \in 1..id_tail_ |-> i] ELSE << >>) \o drawn :
              drawn \in [1..num_mutants -> 1..id_tail_] } :
            num_mutants \in poisson(mu * id_tail_) }

\* a has_mutations_of that looks at the ancestors only, not at the cell
has_mutations_of_AncestorsOnly(cs, x, mutants) ==
    LET genealogy == AncestorIds(cs, cs[x].ancestor)
    IN  [i \in DOMAIN mutants |-> IF mutants[i] \in genealogy THEN 1 ELSE 0]

\* Cell::has_mutations_of
has_mutations_of(cs, x, mutants) ==
    LET genealogy == traceback(cs, x)
    IN  [i \in DOMAIN mutants |-> IF mutants[i] \in genealogy THEN 1 ELSE 0]

\* wtl::sum
RECURSIVE sum(_)
sum(v) == IF v = << >> THEN 0 ELSE Head(v) + sum(Tail(v))

\* wtl::transpose of a matrix of nrow rows with ncol columns each
transpose(A, nrow, ncol) == [i \in 1..ncol |-> [j \in 1..nrow |-> A[j][i]]]

\* Tissue::write_segsites: the number after "segsites: " and the rows
\* written after the positions line (none when s is 0)
write_segsites(cs, samples, mutants) ==
    LET sample_size == Len(samples)
        flags == transpose([j \in 1..sample_size |->
                               has_mutations_of(cs, samples[j], mutants)],
                           sample_size, Len(mutants))
        polymorphic(column) == 0 < sum(column) /\ sum(column) < sample_size
        segsites == SelectSeq(flags, polymorphic)
        s == Len(segsites)
    IN  [s |-> s,
         rows |-> IF s > 0 THEN transpose(segsites, s, sample_size) ELSE << >>]

\* the vectors of up to MaxSamples distinct extant cells
Samples ==
    UNION { {v \in [1..n -> extant_cells_] : \A i, j \in 1..n : v[i] = v[j] => i = j} :
            n \in 1..MaxSamples }

-----------------------------------------------------------------------------
(* Simulation::run and the other callers *)

\* a run that keeps the tissue whatever grow returned
RunKeepTissue ==
    /\ pc = "returned"
    /\ caller = "grow"
    /\ ~success
    /\ pc' = "idle"
    /\ caller' = "none"
    /\ UNCHANGED <<drivers_, cells, rates, extant_cells_, queue_, history_, time_, id_tail_, success,
                   max_size, max_time, mutation_timing, conf, runtime_error, sfmt64, twin, frame,
                   snapshots_, recording_early_growth>>

\* while (!tissue.grow()) {tissue = Tissue();}
RunRestart ==
    /\ pc = "returned"
    /\ caller = "grow"
    /\ ~success
    /\ rates' = << conf.init_event_rates >>
    /\ cells' = << FirstCell(sphere(conf.initial_size)[1], 1, 1,
                              conf.MAX_PROLIFERATION_CAPACITY) >>
    /\ extant_cells_' = {1}
    /\ id_tail_' = 1
    /\ queue_' = << >>
    /\ history_' = << >>
    /\ drivers_' = << >>
    /\ time_' = 0
    /\ pc' = "ctor"
    /\ caller' = "none"
    /\ max_size' = 0
    /\ max_time' = 0
    /\ mutation_timing' = SIZE_MAX
    /\ success' = FALSE
    /\ snapshots_' = << >>
    /\ recording_early_growth' = 0
    /\ UNCHANGED <<conf, runtime_error, sfmt64, twin, frame>>

\* grow returned true, or plateau or treatment returned
Return ==
    /\ pc = "returned"
    /\ ~(caller = "grow" /\ ~success)
    /\ pc' = "idle"
    /\ caller' = "none"
    /\ success' = FALSE
    /\ max_size' = 0
    /\ max_time' = 0
    /\ mutation_timing' = SIZE_MAX
    /\ recording_early_growth' = 0
    /\ UNCHANGED <<drivers_, cells, rates, extant_cells_, queue_, history_, time_, id_tail_, conf, runtime_error, sfmt64, twin, frame,
                   snapshots_>>

\* Tissue::clear
Clear ==
    /\ pc = "idle"
    /\ size > 0
    /\ \E order \in [1..size -> extant_cells_] :
          /\ Range(order) = extant_cells_
          /\ history_' = history_ \o order
    /\ extant_cells_' = {}
    /\ queue_' = << >>
    /\ UNCHANGED <<drivers_, cells, rates, time_, id_tail_, pc, caller, success, max_size, max_time,
                   mutation_timing, conf, runtime_error, sfmt64, twin, frame,
                   snapshots_, recording_early_growth>>

Next ==
    \/ TissueCtor
    \/ CtorSeed
    \/ CtorQueuePush
    \/ CallGrow
    \/ GrowExit
    \/ GrowBirth
    \/ GrowBirthFail
    \/ GrowDeath
    \/ GrowMigrate
    \/ CallPlateau
    \/ PlateauPush
    \/ CallTreatment
    \/ RunRestart
    \/ Return
    \/ Clear

Spec == Init /\ [][Next]_vars

-----------------------------------------------------------------------------
(* The population count of treatment on a grown tissue: of the loop of grow
   only what changes size() is kept. extant_cells_ holds the numbers 1..size()
   in place of cells; the scheduler, the cells and the clock are left out. *)

\* the options of the scenario: growth to 1000 cells, then treatment with
\* three resistant cells and a death probability strictly between 0 and 1
TreatmentScenario ==
    [num_resistant_cells |-> 3] @@
    Options(1, <<"const", "random">>, Rates(1, 0, 0, 0), 1000, 1, 0, 1)

\* the tissue after grow(max_size) has returned
InitGrown ==
    /\ conf = TreatmentScenario
    /\ rates = << conf.init_event_rates >>
    /\ cells = << >>
    /\ extant_cells_ = 1..conf.max_size
    /\ id_tail_ = 2 * conf.max_size - 1
    /\ queue_ = << >>
    /\ history_ = << >>
    /\ drivers_ = << >>
    /\ time_ = 0
    /\ pc = "idle"
    /\ caller = "none"
    /\ success = FALSE
    /\ max_size = 0
    /\ max_time = 0
    /\ mutation_timing = SIZE_MAX
    /\ runtime_error = NoError
    /\ sfmt64 = Unseeded
    /\ twin = NoTwin
    /\ frame = NoFrame
    /\ snapshots_ = << >>
    /\ recording_early_growth = 0

\* Tissue::treatment up to its call of grow
GrownCallTreatment ==
    /\ pc = "idle"
    /\ max_size' = size + margin(conf.num_resistant_cells)
    /\ max_time' = DBL_MAX
    /\ mutation_timing' = SIZE_MAX
    /\ success' = FALSE
    /\ caller' = "treatment"
    /\ pc' = "grow"
    /\ UNCHANGED <<cells, rates, extant_cells_, queue_, history_, drivers_, time_,
                   id_tail_, conf, runtime_error, sfmt64, twin, frame,
                   snapshots_, recording_early_growth>>

\* the exit test of the loop, the event time being finite
GrownExit ==
    /\ pc = "grow"
    /\ size >= max_size
    /\ success' = TRUE
    /\ pc' = "returned"
    /\ UNCHANGED <<cells, rates, extant_cells_, queue_, history_, drivers_, time_,
                   id_tail_, caller, max_size, max_time, mutation_timing, conf, runtime_error, sfmt64, twin, frame,
                   snapshots_, recording_early_growth>>

\* a birth event whose insert succeeded
GrownBirth ==
    /\ pc = "grow"
    /\ ~(size >= max_size)
    /\ extant_cells_' = 1..(size + 1)
    /\ UNCHANGED <<cells, rates, queue_, history_, drivers_, time_, id_tail_, pc,
                   caller, success, max_size, max_time, mutation_timing, conf, runtime_error, sfmt64, twin, frame,
                   snapshots_, recording_early_growth>>

\* a death event
GrownDeath ==
    /\ pc = "grow"
    /\ ~(size >= max_size)
    /\ extant_cells_' = 1..(size - 1)
    /\ pc' = IF size = 1 THEN "returned" ELSE "grow"
    /\ UNCHANGED <<cells, rates, queue_, history_, drivers_, time_, id_tail_,
                   caller, success, max_size, max_time, mutation_timing, conf, runtime_error, sfmt64, twin, frame,
                   snapshots_, recording_early_growth>>

SpecGrown ==
    InitGrown /\
    [][GrownCallTreatment \/ GrownExit \/ GrownBirth \/ GrownDeath]_vars

-----------------------------------------------------------------------------
(* insert(daughter) under const / mindrag on a crowded lattice: the mother on
   the origin, any set of the sites around it occupied *)

MaxRadius == 2      \* the occupied sites lie within this distance of the origin

MindragScenario ==
    Options(1, <<"const", "mindrag">>, Rates(1, 0, 0, 0), SIZE_MAX, 1, 0, 0)

\* the sites around the origin that may hold a cell
Around ==
    { v \in (-MaxRadius..MaxRadius) \X (-MaxRadius..MaxRadius) :
        /\ graph_distance("neumann", v) <= MaxRadius
        /\ v # <<0, 0>> }

\* grow has taken the birth of the cell on the origin and is about to call
\* insert(daughter)
InitCrowd ==
    /\ conf = MindragScenario
    /\ \E S \in SUBSET Around :
          LET site == <<origin>> \o SortLex(S)
          IN  /\ cells = [i \in DOMAIN site |->
                            FirstCell(site[i], i, 1,
                                      conf.MAX_PROLIFERATION_CAPACITY)]
              /\ extant_cells_ = DOMAIN site
              /\ id_tail_ = Len(site)
    /\ rates = << conf.init_event_rates >>
    /\ queue_ = << >>
    /\ history_ = << >>
    /\ drivers_ = << >>
    /\ time_ = 0
    /\ pc = "insert"
    /\ caller = "grow"
    /\ success = FALSE
    /\ max_size = conf.max_size
    /\ max_time = conf.max_time
    /\ mutation_timing = SIZE_MAX
    /\ runtime_error = NoError
    /\ sfmt64 = Unseeded
    /\ twin = NoTwin
    /\ frame = NoFrame
    /\ snapshots_ = << >>
    /\ recording_early_growth = 0

\* const auto daughter = std::make_shared<Cell>(*mother); insert(daughter)
CrowdInsert ==
    /\ pc = "insert"
    /\ \E d0 \in CopyCell(cells[1]) :
       \E r \in insert(Append(cells, d0), extant_cells_, Len(cells) + 1) :
          /\ r.ok /\ r.done
          /\ cells' = r.cells
          /\ extant_cells_' = r.extant
    /\ pc' = "inserted"
    /\ UNCHANGED <<rates, queue_, history_, drivers_, time_, id_tail_, caller,
                   success, max_size, max_time, mutation_timing, conf,
                   runtime_error, sfmt64, twin, frame,
                   snapshots_, recording_early_growth>>

SpecCrowd == InitCrowd /\ [][CrowdInsert]_vars

-----------------------------------------------------------------------------
(* The displacement methods statement by statement, on a crowded lattice:
   frame holds the locals of the running method and the statement it is at *)

\* the options under which grow reaches the method
MethodScenario(method) ==
    CASE method = "push" ->
            Options(1, <<"const", "random">>, Rates(1, 0, 0, 0), SIZE_MAX, 1, 0, 0)
      [] method = "push_minimum_drag" -> MindragScenario
      [] method = "stroll" ->
            Options(1, <<"const", "stroll">>, Rates(1, 0, 0, 0), SIZE_MAX, 1, 0, 0)
      [] method = "insert_adjacent" ->
            Options(1, <<"step", "mindrag">>, Rates(1, 0, 0, 0), SIZE_MAX, 1, 0, 0)
      [] method = "migrate" ->
            Options(1, <<"const", "random">>, Rates(0, 0, 0, 1), SIZE_MAX, 1, 0, 0)

\* the frame on entry: the daughter copied from the cell on the origin, or
\* that cell itself for migrate; a direction where the caller draws one
Entry(method, moving, direction) ==
    [method |-> method,
     at |-> CASE method \in {"push", "push_minimum_drag"} -> "set_coord"
              [] method \in {"stroll", "insert_adjacent"} -> "insert_adjacent"
              [] method = "migrate" -> "erase",
     moving |-> moving, direction |-> direction,
     present_coord |-> origin, untried |-> {}, orig_pos |-> origin,
     existing |-> NoCell]

\* grow has taken the event of the cell on the origin and enters the method
InitSteps ==
    /\ \E method \in {"push", "push_minimum_drag", "stroll",
                      "insert_adjacent", "migrate"} :
          /\ conf = MethodScenario(method)
          /\ \E S \in SUBSET Around :
                LET site == <<origin>> \o SortLex(S)
                    resident == [i \in DOMAIN site |->
                                    FirstCell(site[i], i, 1,
                                              conf.MAX_PROLIFERATION_CAPACITY)]
                    n == Len(site)
                IN  /\ extant_cells_ = DOMAIN site
                    /\ id_tail_ = n
                    /\ IF method = "migrate"
                       THEN /\ cells = resident
                            /\ frame = Entry(method, 1, origin)
                       ELSE /\ \E d0 \in CopyCell(resident[1]) :
                                  cells = Append(resident, d0)
                            /\ \E d \in IF method \in {"push", "stroll"}
                                        THEN DirectionSet ELSE {origin} :
                                  frame = Entry(method, n + 1, d)
    /\ rates = << conf.init_event_rates >>
    /\ queue_ = << >>
    /\ history_ = << >>
    /\ drivers_ = << >>
    /\ time_ = 0
    /\ pc = "insert"
    /\ caller = "grow"
    /\ success = FALSE
    /\ max_size = conf.max_size
    /\ max_time = conf.max_time
    /\ mutation_timing = SIZE_MAX
    /\ runtime_error = NoError
    /\ sfmt64 = Unseeded
    /\ twin = NoTwin
    /\ snapshots_ = << >>
    /\ recording_early_growth = 0

StepFrame ==
    <<rates, queue_, history_, drivers_, time_, id_tail_, pc, caller, success,
      max_size, max_time, mutation_timing, conf, runtime_error, sfmt64, twin,
      snapshots_, recording_early_growth>>

\* moving->set_coord(moving->coord() + direction), the direction being
\* to_nearest_empty(moving->coord()) in push_minimum_drag
StepSetCoord ==
    /\ frame.method \in {"push", "push_minimum_drag", "stroll"}
    /\ frame.at = "set_coord"
    /\ \E d \in IF frame.method = "push_minimum_drag"
                THEN to_nearest_empty(cells, extant_cells_, cells[frame.moving].coord)
                ELSE {frame.direction} :
          cells' = SetCoord(cells, frame.moving, VAdd(cells[frame.moving].coord, d))
    /\ frame' = [frame EXCEPT !.at = "swap_existing"]
    /\ UNCHANGED extant_cells_
    /\ UNCHANGED StepFrame

\* swap_existing(&moving); push and push_minimum_drag go on while it returns
\* true, stroll goes back to insert_adjacent whatever it returns
StepSwapExisting ==
    /\ frame.method \in {"push", "push_minimum_drag", "stroll"}
    /\ frame.at = "swap_existing"
    /\ LET res == swap_existing(cells, extant_cells_, frame.moving)
       IN  /\ extant_cells_' = res.extant
           /\ frame' = [frame EXCEPT
                  !.moving = res.x,
                  !.at = IF frame.method = "stroll" THEN "insert_adjacent"
                         ELSE IF res.swapped THEN "set_coord" ELSE "return"]
    /\ UNCHANGED cells
    /\ UNCHANGED StepFrame

\* insert_adjacent: present_coord = moving->coord(); neighbors, shuffled
StepInsertAdjacent ==
    /\ frame.method \in {"stroll", "insert_adjacent"}
    /\ frame.at = "insert_adjacent"
    /\ frame' = [frame EXCEPT
           !.present_coord = cells[frame.moving].coord,
           !.untried = neighbors(cells[frame.moving].coord),
           !.at = "try"]
    /\ UNCHANGED <<cells, extant_cells_>>
    /\ UNCHANGED StepFrame

\* one pass of the for loop of insert_adjacent: moving->set_coord(x);
\* if (extant_cells_.insert(moving).second) return true
StepTry ==
    /\ frame.at = "try"
    /\ \E x \in frame.untried :
          LET cs1 == SetCoord(cells, frame.moving, x)
          IN  /\ cells' = cs1
              /\ IF CanInsert(extant_cells_, cs1, frame.moving)
                 THEN /\ extant_cells_' = extant_cells_ \cup {frame.moving}
                      /\ frame' = [frame EXCEPT !.at = "return"]
                 ELSE /\ extant_cells_' = extant_cells_
                      /\ frame' = [frame EXCEPT !.untried = @ \ {x}]
    /\ UNCHANGED StepFrame

\* the for loop of insert_adjacent has run out:
\* moving->set_coord(present_coord); return false
StepRestore ==
    /\ frame.at = "try"
    /\ frame.untried = {}
    /\ cells' = SetCoord(cells, frame.moving, frame.present_coord)
    /\ frame' = [frame EXCEPT
           !.at = IF frame.method = "stroll" THEN "set_coord" ELSE "return"]
    /\ UNCHANGED extant_cells_
    /\ UNCHANGED StepFrame

\* a migrate that leaves the moving cell in the index while it moves
MigrateErase_Skip ==
    /\ frame.method = "migrate"
    /\ frame.at = "erase"
    /\ frame' = [frame EXCEPT !.orig_pos = cells[frame.moving].coord,
                              !.at = "set_coord"]
    /\ UNCHANGED <<cells, extant_cells_>>
    /\ UNCHANGED StepFrame

\* migrate: extant_cells_.erase(moving); orig_pos = moving->coord()
MigrateErase ==
    /\ frame.method = "migrate"
    /\ frame.at = "erase"
    /\ extant_cells_' = Erase(extant_cells_, cells, frame.moving)
    /\ frame' = [frame EXCEPT !.orig_pos = cells[frame.moving].coord,
                              !.at = "set_coord"]
    /\ UNCHANGED cells
    /\ UNCHANGED StepFrame

\* migrate: moving->set_coord(random_neighbor(moving->coord()))
MigrateSetCoord ==
    /\ frame.method = "migrate"
    /\ frame.at = "set_coord"
    /\ \E v \in neighbors(cells[frame.moving].coord) :
          cells' = SetCoord(cells, frame.moving, v)
    /\ frame' = [frame EXCEPT !.at = "insert"]
    /\ UNCHANGED extant_cells_
    /\ UNCHANGED StepFrame

\* migrate: result = extant_cells_.insert(moving); when the site is taken,
\* the resident is taken out and moving put in
MigrateInsert ==
    /\ frame.method = "migrate"
    /\ frame.at = "insert"
    /\ IF CanInsert(extant_cells_, cells, frame.moving)
       THEN /\ extant_cells_' = extant_cells_ \cup {frame.moving}
            /\ frame' = [frame EXCEPT !.at = "return"]
       ELSE LET existing == CHOOSE e \in find(extant_cells_, cells,
                                              cells[frame.moving].coord) : TRUE
            IN  /\ extant_cells_' =
                       Insert(extant_cells_ \ {existing}, cells, frame.moving)
                /\ frame' = [frame EXCEPT !.existing = existing,
                                          !.at = "set_coord_existing"]
    /\ UNCHANGED cells
    /\ UNCHANGED StepFrame

\* migrate: existing->set_coord(orig_pos); extant_cells_.insert(existing)
MigrateSwapBack ==
    /\ frame.method = "migrate"
    /\ frame.at = "set_coord_existing"
    /\ LET cs1 == SetCoord(cells, frame.existing, frame.orig_pos)
       IN  /\ cells' = cs1
           /\ extant_cells_' = Insert(extant_cells_, cs1, frame.existing)
    /\ frame' = [frame EXCEPT !.at = "return"]
    /\ UNCHANGED StepFrame

NextSteps ==
    \/ StepSetCoord
    \/ StepSwapExisting
    \/ StepInsertAdjacent
    \/ StepTry
    \/ StepRestore
    \/ MigrateErase
    \/ MigrateSetCoord
    \/ MigrateInsert
    \/ MigrateSwapBack

SpecSteps == InitSteps /\ [][NextSteps]_vars

-----------------------------------------------------------------------------
(* graph_distance on each of the six geometries, for every displacement of a
   box around the origin: frame holds the argument and the value returned *)

MaxCoord == 2       \* the components of a displacement lie in -MaxCoord..MaxCoord

\* coord_func_->graph_distance(diff) is about to be called, on one of the
\* geometries Tissue::init_coord can construct, with a displacement of the box
InitDistance ==
    /\ \E d \in {2, 3}, c \in {"neumann", "moore", "hex"} :
          /\ conf = [dimensions |-> d, coordinate |-> c] @@
                    Options(1, <<"const", "random">>, Rates(1, 0, 0, 0),
                            SIZE_MAX, 1, 0, 0)
          /\ \E v \in [1..d -> -MaxCoord..MaxCoord] :
                frame = [method |-> "graph_distance", at |-> "call",
                         v |-> v, result |-> 0]
    /\ cells = << >>
    /\ extant_cells_ = {}
    /\ id_tail_ = 0
    /\ rates = << conf.init_event_rates >>
    /\ queue_ = << >>
    /\ history_ = << >>
    /\ drivers_ = << >>
    /\ time_ = 0
    /\ pc = "graph_distance"
    /\ caller = "pairwise_distance"
    /\ success = FALSE
    /\ max_size = conf.max_size
    /\ max_time = conf.max_time
    /\ mutation_timing = SIZE_MAX
    /\ runtime_error = NoError
    /\ sfmt64 = Unseeded
    /\ twin = NoTwin
    /\ snapshots_ = << >>
    /\ recording_early_growth = 0

\* size_t graph_distance(const std::vector<int>& v) const
GraphDistance ==
    /\ pc = "graph_distance"
    /\ frame.at = "call"
    /\ frame' = [frame EXCEPT !.at = "return",
                              !.result = graph_distance(conf.coordinate, frame.v)]
    /\ pc' = "returned"
    /\ UNCHANGED <<cells, rates, extant_cells_, queue_, history_, drivers_,
                   time_, id_tail_, caller, success, max_size, max_time,
                   mutation_timing, conf, runtime_error, sfmt64, twin,
                   snapshots_, recording_early_growth>>

SpecDistance == InitDistance /\ [][GraphDistance]_vars

-----------------------------------------------------------------------------
(* Two runs under the same options and the same seeded stream, side by side:
   every draw is read from the stream in the order of the calls in the source *)

StreamLen == 4      \* period of the stream
DrawRange == 4      \* a stored draw is one of 0..DrawRange-1

\* grow to three cells, then plateau, then treatment with one resistant cell;
\* driver mutations of the birth rate with probability 1/2
SeededScenario ==
    [num_resistant_cells |-> 1, RATE_BIRTH |-> 1, waits |-> 1..2] @@
    Options(1, <<"const", "random">>, Rates(1, 0, 0, 0), 3, 2, 1, 1)

\* sequencing: F is applied to each value of S once that value is known
Bind(S, F(_)) == UNION { F(x) : x \in S }

RECURSIVE ascending(_)
ascending(S) ==
    IF S = {} THEN << >>
    ELSE LET m == CHOOSE m \in S : \A x \in S : m <= x
         IN  <<m>> \o ascending(S \ {m})

\* one number taken from the engine, reduced to 0..n-1
draw_uniform(g, n) ==
    [value |-> g.seed[g.i] % n,
     rng |-> [g EXCEPT !.i = (g.i % Len(g.seed)) + 1]]

\* bernoulli(p, engine): no draw when p <= 0 or p >= 1
draw_bernoulli(g, p) ==
    IF p >= ProbUnit THEN [value |-> TRUE, rng |-> g]
    ELSE IF p <= 0 THEN [value |-> FALSE, rng |-> g]
    ELSE LET u == draw_uniform(g, ProbUnit)
         IN  [value |-> u.value < p, rng |-> u.rng]

\* gamma(engine), exponential(engine): one of the finite waiting times
draw_wait(g) ==
    LET w == ascending(FiniteWaits)
        u == draw_uniform(g, Len(w))
    IN  [value |-> w[u.value + 1], rng |-> u.rng]

\* Cell::delta_time with its draws in source order: birth, death, migration,
\* then bernoulli(death_prob) when the birth comes first
seeded_delta_time(rs, c, g) ==
    LET r == rs[c.event_rates]
        none(h) == [value |-> Inf, rng |-> h]
        b == IF c.proliferation_capacity > 0 /\ r.birth_rate > 0
             THEN draw_wait(g) ELSE none(g)
        d == IF r.death_rate > 0 THEN draw_wait(b.rng) ELSE none(b.rng)
        m == IF r.migra_rate > 0 THEN draw_wait(d.rng) ELSE none(d.rng)
    IN  IF b.value < d.value /\ b.value < m.value
        THEN LET k == draw_bernoulli(m.rng, r.death_prob)
             IN  [o |-> <<b.value, IF k.value THEN "death" ELSE "birth">>,
                  rng |-> k.rng]
        ELSE IF d.value < m.value
        THEN [o |-> <<d.value, "death">>, rng |-> m.rng]
        ELSE [o |-> <<m.value, "migration">>, rng |-> m.rng]

\* Tissue::queue_push on the run s
seeded_queue_push(s, x) ==
    LET d == seeded_delta_time(s.rates, s.cells[x], s.sfmt64)
        st == queue_push([cells |-> s.cells, queue |-> s.queue_], x, d.o, s.time_)
    IN  [s EXCEPT !.cells = st.cells, !.queue_ = st.queue, !.sfmt64 = d.rng]

\* Cell(const Cell&): bernoulli(PROB_SYMMETRIC_DIVISION_) for a stem cell only
seeded_copy(other, g) ==
    LET k == IF other.type = "stem"
             THEN draw_bernoulli(g, conf.PROB_SYMMETRIC_DIVISION)
             ELSE [value |-> TRUE, rng |-> g]
    IN  [cell |-> [other EXCEPT !.next_event = "birth", !.time_of_death = 0,
                                !.type = IF other.type = "stem" /\ ~k.value
                                         THEN "nonstem" ELSE other.type],
         rng |-> k.rng]

\* Cell::mutate: BERN_MUT_BIRTH, GAUSS_BIRTH, BERN_MUT_DEATH, GAUSS_DEATH,
\* BERN_MUT_MIGRA, GAUSS_MIGRA in this order, a Gaussian only after a hit
seeded_mutate(rs, c, g) ==
    LET hit(x, S, h) == IF h THEN CHOOSE y \in S : y # x ELSE x
        gauss(k) == IF k.value THEN draw_uniform(k.rng, DrawRange).rng ELSE k.rng
        x0 == [rates |-> rs, cell |-> c, log |-> << >>]
        b == draw_bernoulli(g, conf.RATE_BIRTH)
        x1 == hit(x0, MutateBirth(x0), b.value)
        d == draw_bernoulli(gauss(b), conf.RATE_DEATH)
        x2 == hit(x1, MutateDeath(x1), d.value)
        m == draw_bernoulli(gauss(d), conf.RATE_MIGRA)
        x3 == hit(x2, MutateMigra(x2), m.value)
    IN  [rates |-> x3.rates, cell |-> x3.cell, log |-> x3.log, rng |-> gauss(m)]

\* a table that hashes its handles by address: the order of a traversal is
\* not a function of what the table holds
iteration_ByAddress(ext, cs) == shuffle(ext)

\* for (p: extant_cells_): the order of a traversal of the table, which
\* hashes and compares the handles by coord; it is a function of the coords
\* the table holds
iteration(ext, cs) ==
    LET order == SortLex({cs[e].coord : e \in ext})
    IN  { [i \in DOMAIN order |->
              CHOOSE e \in ext : cs[e].coord = order[i]] }

\* for (x: order) queue_push(x)
RECURSIVE push_all(_, _)
push_all(s, order) ==
    IF order = << >> THEN {s}
    ELSE Bind({seeded_queue_push(s, Head(order))},
              LAMBDA t : push_all(t, Tail(order)))

\* Tissue::Tissue with initial_size 1: the origin cell, then the loop of
\* queue_push over extant_cells_
seeded_ctor(s) ==
    IF s.pc = "new" /\ conf.initial_size = 1
    THEN LET s1 == [s EXCEPT
                      !.rates = << conf.init_event_rates >>,
                      !.cells = << FirstCell(sphere(conf.initial_size)[1], 1, 1,
                                             conf.MAX_PROLIFERATION_CAPACITY) >>,
                      !.extant_cells_ = {1},
                      !.id_tail_ = 1,
                      !.pc = "idle"]
         IN  Bind({s1}, LAMBDA t :
                Bind(iteration(t.extant_cells_, t.cells), LAMBDA order :
                   push_all(t, order)))
    ELSE {}

\* Simulation::run calls grow
seeded_call_grow(s) ==
    IF s.pc = "idle"
    THEN { [s EXCEPT !.max_size = conf.max_size, !.max_time = conf.max_time,
                     !.mutation_timing = conf.mutation_timing,
                     !.success = FALSE, !.caller = "grow", !.pc = "grow"] }
    ELSE {}

\* the exit test of the loop of grow
seeded_exit(s) ==
    IF /\ s.pc = "grow"
       /\ \/ Head(s.queue_)[1] > s.max_time
          \/ Cardinality(s.extant_cells_) >= s.max_size
    THEN { [s EXCEPT !.time_ = Head(s.queue_)[1], !.success = TRUE,
                     !.pc = "returned"] }
    ELSE {}

seeded_dispatching(s) ==
    /\ s.pc = "grow"
    /\ ~(\/ Head(s.queue_)[1] > s.max_time
         \/ Cardinality(s.extant_cells_) >= s.max_size)

\* a birth under const / random: the copies, random_direction, push, mutate
\* of the mother and of the daughter, queue_push of the mother and of the
\* daughter
seeded_birth(s) ==
    IF /\ seeded_dispatching(s)
       /\ s.cells[Head(s.queue_)[2]].next_event = "birth"
       /\ s.id_tail_ + 2 <= MaxId
    THEN LET now == Head(s.queue_)[1]
             m == Head(s.queue_)[2]
             daughter == Len(s.cells) + 1
             ancestor == Len(s.cells) + 2
         IN  Bind({seeded_copy(s.cells[m], s.sfmt64)}, LAMBDA d0 :
             Bind({draw_uniform(d0.rng, Len(directions(conf.coordinate)))},
                  LAMBDA u :
             Bind({push(Append(s.cells, d0.cell), s.extant_cells_, daughter,
                        directions(conf.coordinate)[u.value + 1], MaxPush)},
                  LAMBDA r :
             IF ~(r.done /\ InBox(r.cells, r.extant)) THEN {} ELSE
             Bind({seeded_copy(r.cells[m], u.rng)}, LAMBDA a0 :
             Bind({IF r.cells[daughter].type = "stem"
                   THEN draw_bernoulli(a0.rng, conf.PROB_SYMMETRIC_DIVISION)
                   ELSE [value |-> TRUE, rng |-> a0.rng]}, LAMBDA k :
             Bind({seeded_mutate(s.rates,
                      set_time_of_birth(r.cells[m], now, s.id_tail_ + 1,
                                        ancestor), k.rng)}, LAMBDA m2 :
             Bind({seeded_mutate(m2.rates,
                      set_time_of_birth(
                         [r.cells[daughter] EXCEPT
                            !.type = IF @ = "stem" /\ ~k.value
                                     THEN "nonstem" ELSE @],
                         now, s.id_tail_ + 2, ancestor), m2.rng)}, LAMBDA d3 :
             Bind({IF Cardinality(r.extant) > s.mutation_timing
                   THEN force_mutate(d3.rates, d3.cell)
                   ELSE [rates |-> d3.rates, cell |-> d3.cell, log |-> << >>]},
                  LAMBDA d4 :
             Bind({[s EXCEPT
                      !.cells = [r.cells EXCEPT ![m] = m2.cell,
                                                ![daughter] = d4.cell] \o
                                <<set_time_of_death(a0.cell, now)>>,
                      !.rates = d4.rates,
                      !.queue_ = Tail(@),
                      !.extant_cells_ = r.extant,
                      !.history_ = Append(@, ancestor),
                      !.id_tail_ = @ + 2,
                      !.drivers_ = @ \o m2.log \o d3.log \o d4.log,
                      !.mutation_timing =
                          IF Cardinality(r.extant) > s.mutation_timing
                          THEN SIZE_MAX ELSE @,
                      !.time_ = now,
                      !.sfmt64 = d3.rng]}, LAMBDA s1 :
             Bind({seeded_queue_push(s1, m)}, LAMBDA s2 :
                {seeded_queue_push(s2, daughter)}))))))))))
    ELSE {}

\* a death
seeded_death(s) ==
    IF /\ seeded_dispatching(s)
       /\ s.cells[Head(s.queue_)[2]].next_event = "death"
    THEN LET now == Head(s.queue_)[1]
             m == Head(s.queue_)[2]
             cs == [s.cells EXCEPT ![m] = set_time_of_death(@, now)]
             ext == Erase(s.extant_cells_, cs, m)
         IN  { [s EXCEPT !.cells = cs, !.history_ = Append(@, m),
                         !.extant_cells_ = ext, !.queue_ = Tail(@),
                         !.time_ = now, !.success = FALSE,
                         !.pc = IF ext = {} THEN "returned" ELSE "grow"] }
    ELSE {}

\* for (p: order) {p->increase_death_rate(); queue_push(p);}
RECURSIVE replan_all(_, _)
replan_all(s, order) ==
    IF order = << >> THEN {s}
    ELSE Bind({increase_death_rate(s.rates, s.cells[Head(order)])}, LAMBDA y :
         Bind({[s EXCEPT !.rates = y.rates, !.cells[Head(order)] = y.cell]},
              LAMBDA s1 :
         Bind({seeded_queue_push(s1, Head(order))}, LAMBDA s2 :
            replan_all(s2, Tail(order)))))

\* Tissue::plateau up to its call of grow, after grow has returned true
seeded_plateau(s) ==
    IF /\ s.pc = "returned" /\ s.caller = "grow" /\ s.success
       /\ conf.plateau > 0
    THEN Bind({[s EXCEPT !.queue_ = << >>,
                         !.max_size = SIZE_MAX,
                         !.max_time = TAdd(s.time_, conf.plateau),
                         !.mutation_timing = SIZE_MAX,
                         !.success = FALSE,
                         !.caller = "plateau", !.pc = "grow"]}, LAMBDA s1 :
         Bind(iteration(s1.extant_cells_, s1.cells), LAMBDA order :
            replan_all(s1, order)))
    ELSE {}

\* std::shuffle(first, last, engine): the last place takes one of the
\* elements up to it, then the place before it, and so on
RECURSIVE seeded_shuffle(_, _, _)
seeded_shuffle(v, n, g) ==
    IF n <= 1 THEN {[v |-> v, rng |-> g]}
    ELSE Bind({draw_uniform(g, n)}, LAMBDA u :
         Bind({[v EXCEPT ![n] = v[u.value + 1], ![u.value + 1] = v[n]]},
              LAMBDA w : seeded_shuffle(w, n - 1, u.rng)))

\* the loop of treatment over the shuffled cells from place i on
RECURSIVE mark_from(_, _, _, _)
mark_from(s, v, i, death_prob) ==
    IF i > Len(v) THEN {s}
    ELSE Bind({draw_bernoulli(s.sfmt64, death_prob)}, LAMBDA b :
         Bind({set_cycle_dependent_death(s.rates, s.cells[v[i]], death_prob,
                                         b.value)}, LAMBDA y :
         Bind({[s EXCEPT !.rates = y.rates, !.cells[v[i]] = y.cell,
                         !.sfmt64 = b.rng]}, LAMBDA s1 :
            mark_from(s1, v, i + 1, death_prob))))

\* for (p: queue_) cells.emplace_back(p.second)
treatment_cells(q) == [i \in DOMAIN q |-> q[i][2]]

\* Tissue::treatment up to its call of grow, after plateau has returned
seeded_treatment(s) ==
    IF /\ s.pc = "returned" /\ s.caller = "plateau"
       /\ conf.treatment > 0 /\ s.extant_cells_ # {}
    THEN Bind(seeded_shuffle(treatment_cells(s.queue_), Len(s.queue_),
                             s.sfmt64), LAMBDA sh :
         Bind({[s EXCEPT !.sfmt64 = sh.rng]}, LAMBDA s0 :
         Bind(mark_from(s0, sh.v, conf.num_resistant_cells + 1,
                        conf.treatment), LAMBDA s1 :
            { [s1 EXCEPT !.max_size = Cardinality(s.extant_cells_) +
                                          margin(conf.num_resistant_cells),
                         !.max_time = DBL_MAX,
                         !.mutation_timing = SIZE_MAX,
                         !.success = FALSE,
                         !.caller = "treatment", !.pc = "grow"] })))
    ELSE {}

\* the first run, as a record
Here ==
    [cells |-> cells, rates |-> rates, extant_cells_ |-> extant_cells_,
     queue_ |-> queue_, history_ |-> history_, drivers_ |-> drivers_,
     time_ |-> time_, id_tail_ |-> id_tail_, pc |-> pc, caller |-> caller,
     success |-> success, max_size |-> max_size, max_time |-> max_time,
     mutation_timing |-> mutation_timing, sfmt64 |-> sfmt64]

\* the first run takes the step to a, the second the step to b
Both(a, b) ==
    /\ cells' = a.cells
    /\ rates' = a.rates
    /\ extant_cells_' = a.extant_cells_
    /\ queue_' = a.queue_
    /\ history_' = a.history_
    /\ drivers_' = a.drivers_
    /\ time_' = a.time_
    /\ id_tail_' = a.id_tail_
    /\ pc' = a.pc
    /\ caller' = a.caller
    /\ success' = a.success
    /\ max_size' = a.max_size
    /\ max_time' = a.max_time
    /\ mutation_timing' = a.mutation_timing
    /\ sfmt64' = a.sfmt64
    /\ twin' = b
    /\ UNCHANGED <<snapshots_, recording_early_growth, frame>>
    /\ UNCHANGED <<conf, runtime_error>>

\* both runs enter the constructor with the same options and the same seed
InitSeeded ==
    /\ conf = SeededScenario
    /\ rates = << >>
    /\ cells = << >>
    /\ extant_cells_ = {}
    /\ id_tail_ = 0
    /\ queue_ = << >>
    /\ history_ = << >>
    /\ drivers_ = << >>
    /\ time_ = 0
    /\ pc = "new"
    /\ caller = "none"
    /\ success = FALSE
    /\ max_size = 0
    /\ max_time = 0
    /\ mutation_timing = SIZE_MAX
    /\ runtime_error = NoError
    /\ \E seed \in [1..StreamLen -> 0..(DrawRange - 1)] :
          sfmt64 = [seed |-> seed, i |-> 1]
    /\ twin = Here
    /\ frame = NoFrame
    /\ snapshots_ = << >>
    /\ recording_early_growth = 0

SeededCtor == \E a \in seeded_ctor(Here), b \in seeded_ctor(twin) : Both(a, b)

SeededCallGrow ==
    \E a \in seeded_call_grow(Here), b \in seeded_call_grow(twin) : Both(a, b)

SeededExit == \E a \in seeded_exit(Here), b \in seeded_exit(twin) : Both(a, b)

SeededBirth == \E a \in seeded_birth(Here), b \in seeded_birth(twin) : Both(a, b)

SeededDeath == \E a \in seeded_death(Here), b \in seeded_death(twin) : Both(a, b)

SeededPlateau ==
    \E a \in seeded_plateau(Here), b \in seeded_plateau(twin) : Both(a, b)

SeededTreatment ==
    \E a \in seeded_treatment(Here), b \in seeded_treatment(twin) : Both(a, b)

NextSeeded ==
    \/ SeededCtor
    \/ SeededCallGrow
    \/ SeededExit
    \/ SeededBirth
    \/ SeededDeath
    \/ SeededPlateau
    \/ SeededTreatment

SpecSeeded == InitSeeded /\ [][NextSeeded]_vars

-----------------------------------------------------------------------------
(* Properties *)

\* C1: at every boundary of the growth loop (after construction, before and
\* after each iteration, after plateau's rescheduling and after treatment's
\* marking) the queue has as many entries as there are cells in the occupancy
\* index (size()), and every extant cell has exactly one entry in the queue
C1_OneEntryPerCell ==
    pc \in {"idle", "grow", "returned"} =>
        /\ Len(queue_) = Cardinality(extant_cells_)
        /\ \A c \in extant_cells_ :
              Cardinality({i \in DOMAIN queue_ : queue_[i][2] = c}) = 1

C1_Witness ==
    /\ pc = "grow"
    /\ caller = "treatment"
    /\ size = 2
    /\ Len(history_) >= 2

\* C2: no two extant cells have the same coord
C2_OneCellPerSite ==
    \A a \in extant_cells_, b \in extant_cells_ :
        a # b => cells[a].coord # cells[b].coord

C2_Witness ==
    /\ size = 3
    /\ conf.displacement_path = "stroll"
    /\ conf.init_event_rates.migra_rate > 0
    /\ \E c \in extant_cells_ : cells[c].next_event = "migration"

\* C3: every entry of the queue has an event time greater than or equal to
\* time_
C3_QueueNotBeforeNow ==
    \A i \in DOMAIN queue_ : queue_[i][1] >= time_

C3_Witness ==
    /\ pc = "grow"
    /\ caller = "plateau"
    /\ time_ > 0
    /\ Len(queue_) >= 2

\* C4: time_ never decreases on one tissue (Simulation::run replacing the
\* tissue by a new one starts a new tissue)
C4_TimeMonotonic ==
    [][~(pc = "returned" /\ pc' = "ctor") => time_' >= time_]_vars

C4_Witness ==
    /\ pc = "grow"
    /\ caller = "treatment"
    /\ time_ = 2

\* C5: at every division the mother gets the id id_tail_ + 1, greater than
\* every id issued before, the daughter gets id_tail_ + 2, and no two cells
\* ever recorded carry the same id
C5_FreshIds ==
    [][(pc # "new" /\ id_tail_' > id_tail_) =>
          /\ \A h \in DOMAIN cells : cells[h].id <= id_tail_
          /\ id_tail_' = id_tail_ + 2
          /\ \E m \in extant_cells_ :
             \E d \in extant_cells_' \ extant_cells_ :
                /\ cells'[m].id = id_tail_ + 1
                /\ cells'[d].id = id_tail_ + 2
                /\ cells'[d].id > cells'[m].id
          /\ \A g \in DOMAIN cells', h \in DOMAIN cells' :
                g # h => cells'[g].id # cells'[h].id]_vars

C5_Witness ==
    /\ id_tail_ = 5
    /\ Len(history_) >= 2
    /\ size = 3

\* C6: the entry dispatched is the first of the queue and no entry is
\* earlier; the entries that stay keep their order; an entry pushed never
\* gets ahead of an entry of the same time that was pushed before it (of the
\* two entries of a division the mother's is pushed first)
C6_DispatchOrder ==
    [][(pc \in {"ctor", "plateau"} \/ Dispatching) =>
          LET Kept == IF Dispatching THEN Tail(queue_) ELSE queue_
              old == Queued(Kept)
              q == queue_'
              IsOld(e) == e[2] \in old
          IN  /\ Dispatching =>
                    /\ time_' = it[1]
                    /\ it[1] >= time_
                    /\ \A i \in DOMAIN queue_ : it[1] <= queue_[i][1]
              /\ SelectSeq(q, IsOld) = Kept
              /\ \A i \in DOMAIN q, j \in DOMAIN q :
                    i < j =>
                       /\ q[i][1] <= q[j][1]
                       /\ (~IsOld(q[i]) /\ IsOld(q[j])) => q[i][1] < q[j][1]
                       /\ (~IsOld(q[i]) /\ ~IsOld(q[j]) /\ q[i][1] = q[j][1]) =>
                              q[i][2] = mother]_vars

C6_Witness ==
    /\ pc = "grow"
    /\ Len(queue_) = 3
    /\ queue_[1][1] = queue_[2][1]
    /\ queue_[2][1] = queue_[3][1]
    /\ time_ = 1

\* C7: grow leaves its loop only when the next event time exceeds max_time
\* or size() >= max_size, returning true, or when the death of the last
\* extant cell has emptied the population, returning false; and it leaves the
\* loop whenever one of the three holds
C7_GrowExits ==
    [][pc = "grow" =>
          LET capped == it[1] > max_time \/ size >= max_size
              extinct == extant_cells_' = {}
          IN  /\ pc' = "returned" <=> (capped \/ extinct)
              /\ capped => (success' /\ ~extinct /\ extant_cells_' = extant_cells_)
              /\ (~capped /\ extinct) =>
                    /\ ~success'
                    /\ cells[mother].next_event = "death"
                    /\ extant_cells_ = {mother}]_vars

C7_Witness ==
    /\ pc = "returned"
    /\ ~success
    /\ extant_cells_ = {}
    /\ id_tail_ = 5

\* C8 as claimed: when the population has reached zero the growth run is a
\* success and the tissue keeps its recorded history
C8_ExtinctionIsSuccess ==
    [][(pc = "returned" /\ extant_cells_ = {}) =>
          (success /\ history_' = history_)]_vars

\* C8 as amended: when the population has reached zero grow has returned
\* false, and Simulation::run replaces the tissue by a newly constructed one,
\* whose history is empty
C8_ExtinctionIsFailure ==
    [][(pc = "returned" /\ extant_cells_ = {}) =>
          /\ ~success
          /\ caller = "grow" =>
                /\ pc' = "ctor"
                /\ history_' = << >>
                /\ Len(cells') = 1
                /\ id_tail_' = 1
                /\ time_' = 0]_vars

C8_Witness ==
    /\ pc = "returned"
    /\ caller = "grow"
    /\ extant_cells_ = {}
    /\ Len(history_) >= 3

\* C9: every ancestor link points to a snapshot in history with a strictly
\* smaller id, only the cell with id 1 has no ancestor, and the ids traceback
\* collects for any cell include 1
C9_AncestorChains ==
    LET linked == \A h \in DOMAIN cells :
                     IF cells[h].ancestor = NoCell THEN cells[h].id = 1
                     ELSE /\ cells[h].ancestor \in Range(history_)
                          /\ cells[cells[h].ancestor].id < cells[h].id
    IN  /\ linked
        /\ linked => \A h \in DOMAIN cells : 1 \in traceback(cells, h)

C9_Witness ==
    /\ \E h \in extant_cells_ :
          /\ Cardinality(traceback(cells, h)) = 3
          /\ cells[h].ancestor \in Range(history_)
    /\ \E h \in Range(history_) : cells[h].time_of_death > 0

\* C10: branch_length(c, c) == 0 and branch_length(a, b) == branch_length(b, a)
\* for all recorded cells, stated for the pairs on which neither call reads
\* the id of a null ancestor
C10_BranchLengthSymmetric ==
    \A a \in DOMAIN cells, b \in DOMAIN cells :
        /\ branch_length(cells, a, a) = 0
        /\ (branch_length(cells, a, b) # NullDeref /\
            branch_length(cells, b, a) # NullDeref) =>
               branch_length(cells, a, b) = branch_length(cells, b, a)

\* C11: for two distinct extant cells a and b, a.branch_length(b) is the
\* number of ancestor links from a up to their most recent common ancestor
\* plus the number of links from b up to it; the most recent common ancestor
\* is the greatest id the two ancestries share, and the links from a cell to
\* it are the ids of its ancestry above that id
C11_BranchLengthIsPathLength ==
    \A a \in extant_cells_, b \in extant_cells_ :
        a # b =>
            LET ga == traceback(cells, a)
                gb == traceback(cells, b)
                common == ga \cap gb
                mrca == CHOOSE m \in common : \A n \in common : n <= m
                links(g) == Cardinality({i \in g : i > mrca})
            IN  /\ common # {}
                /\ branch_length(cells, a, b) = links(ga) + links(gb)

C11_Witness ==
    \E a \in extant_cells_, b \in extant_cells_ :
        /\ branch_length(cells, a, b) = 3
        /\ \E c \in extant_cells_ : branch_length(cells, a, c) = 2

\* C12: every cell stored in history has a time_of_death assigned when it
\* was archived, the simulation time of its division or death, which is not
\* before its time_of_birth; every extant cell has the time_of_death it was
\* constructed with
C12_TimeOfDeath ==
    /\ \A h \in Range(history_) :
          /\ cells[h].time_of_death >= cells[h].time_of_birth
          /\ cells[h].time_of_death <= time_
    /\ \A e \in extant_cells_ : cells[e].time_of_death = 0

\* C13: the proliferation capacity of every cell stays within [0, omega_max]:
\* no cell with capacity 0 divides, so the 8-bit counter that
\* set_time_of_birth decrements never wraps around
C13_OmegaInRange ==
    \A h \in DOMAIN cells :
        /\ cells[h].proliferation_capacity >= 0
        /\ cells[h].proliferation_capacity <= conf.MAX_PROLIFERATION_CAPACITY

\* C14: when a division changes the death_rate of one of its two products
\* (mutate hit the death trait, or force_mutate ran), the death_prob of that
\* cell is multiplied by the same factor as its death_rate
C14_SameFactorOnDeathProb ==
    [][(pc = "grow" /\ id_tail_' > id_tail_) =>
          LET before == rates[cells[mother].event_rates]
          IN  \A x \in extant_cells_' :
                 cells'[x].id > id_tail_ =>
                    LET after == rates'[cells'[x].event_rates]
                    IN  after.death_rate # before.death_rate =>
                           after.death_prob * before.death_rate =
                               before.death_prob * after.death_rate]_vars

\* C15: mutate, force_mutate and set_cycle_dependent_death on one cell change
\* the rates seen by that cell only. In every step on one tissue: a snapshot
\* stored in history keeps all its fields and the rates it sees; a cell whose
\* event_rates_ handle is not replaced sees the same rates; and at a division
\* the archived snapshot sees the rates the mother had before, and so does
\* each of the two products for which the step wrote no line to drivers_
C15_RatesCopiedOnWrite ==
    [][~(pc = "returned" /\ pc' = "ctor") =>
          LET Seen(h) == rates[cells[h].event_rates]
              SeenAfter(h) == rates'[cells'[h].event_rates]
              written == {drivers_'[i][1] :
                             i \in (DOMAIN drivers_') \ (DOMAIN drivers_)}
          IN  /\ \A h \in Range(history_) :
                    cells'[h] = cells[h] /\ SeenAfter(h) = Seen(h)
              /\ \A h \in DOMAIN cells :
                    cells'[h].event_rates = cells[h].event_rates =>
                        SeenAfter(h) = Seen(h)
              /\ (pc = "grow" /\ id_tail_' > id_tail_) =>
                    /\ \A a \in Range(history_') \ Range(history_) :
                          SeenAfter(a) = Seen(mother)
                    /\ \A x \in extant_cells_' :
                          (cells'[x].id > id_tail_ /\ cells'[x].id \notin written)
                              => SeenAfter(x) = Seen(mother)]_vars

C15_Witness ==
    /\ drivers_ # << >>
    /\ caller = "treatment"
    /\ pc = "grow"
    /\ \E a \in extant_cells_, b \in extant_cells_, h \in Range(history_) :
          /\ a # b
          /\ cells[a].ancestor = h
          /\ cells[b].ancestor = h
          /\ rates[cells[b].event_rates] = rates[cells[h].event_rates]
          /\ rates[cells[a].event_rates] # rates[cells[h].event_rates]

\* C16: force_mutate is applied at most once in a grow call, to the daughter
\* of the first successful division after which size() exceeds
\* mutation_timing, and never inside plateau or treatment. A step applies it
\* when it writes a "birth" line to drivers_ (mutate writes none: the driver
\* rate of birth is 0 in every run of the model). Such a step is a division
\* of a grow call started by the caller, with the threshold of the call still
\* in force and exceeded by the new size; it writes the three lines of the
\* daughter last and puts the threshold out of force for the rest of the call;
\* and a division that exceeds the threshold in force applies it
C16_ForceMutateOnce ==
    [][LET new == (DOMAIN drivers_') \ (DOMAIN drivers_)
           forced == \E i \in new : drivers_'[i][2] = "birth"
           division == pc = "grow" /\ id_tail_' > id_tail_
           n == Len(drivers_')
           d == id_tail_ + 2
       IN  /\ forced =>
                 /\ division
                 /\ caller = "grow"
                 /\ mutation_timing = conf.mutation_timing
                 /\ Cardinality(extant_cells_') > conf.mutation_timing
                 /\ Cardinality({i \in new : drivers_'[i][2] = "birth"}) = 1
                 /\ drivers_'[n - 2] = <<d, "birth", conf.MEAN_BIRTH>>
                 /\ drivers_'[n - 1] = <<d, "death", conf.MEAN_DEATH>>
                 /\ drivers_'[n] = <<d, "migra", conf.MEAN_MIGRA>>
                 /\ mutation_timing' = SIZE_MAX
           /\ (pc = "grow" /\ pc' = "grow" /\ ~forced) =>
                 mutation_timing' = mutation_timing
           /\ (division /\ Cardinality(extant_cells_') > mutation_timing) => forced
           /\ (pc = "grow" /\ caller \in {"plateau", "treatment"}) =>
                 mutation_timing = SIZE_MAX]_vars

C16_Witness ==
    /\ pc = "grow"
    /\ caller = "grow"
    /\ id_tail_ = 5
    /\ size = 3
    /\ Cardinality({i \in DOMAIN drivers_ : drivers_[i][2] = "birth"}) = 1
    /\ \E i \in DOMAIN drivers_ : drivers_[i] = <<3, "birth", 1>>

\* C17: a birth event whose insert(daughter) fails (no id is issued) happens
\* only under the step and linear policies and changes nothing but the
\* mother's scheduler entry: the occupancy index, the coord of every extant
\* cell, history_, id_tail_, drivers_, the shared event rates and the mother's
\* id, ancestor and time_of_birth are unchanged, no cell object is kept, and
\* the queue is the old one with the mother's entry taken from the front and
\* put back at a time not before the event.
C17_FailedInsertFrame ==
    [][(Dispatching /\ cells[mother].next_event = "birth" /\ id_tail_' = id_tail_) =>
        /\ conf.local_density_effect \in {"step", "linear"}
        /\ extant_cells_' = extant_cells_
        /\ \A e \in extant_cells_ : cells'[e].coord = cells[e].coord
        /\ history_' = history_
        /\ drivers_' = drivers_
        /\ rates' = rates
        /\ Len(cells') = Len(cells)
        /\ \A x \in DOMAIN cells :
              cells' [x] = [cells[x] EXCEPT !.next_event = cells'[x].next_event]
        /\ \A x \in DOMAIN cells \ {mother} : cells'[x] = cells[x]
        /\ cells'[mother].id = cells[mother].id
        /\ cells'[mother].ancestor = cells[mother].ancestor
        /\ cells'[mother].time_of_birth = cells[mother].time_of_birth
        /\ Len(queue_') = Len(queue_)
        /\ \E i \in DOMAIN queue_' :
              /\ queue_'[i][2] = mother
              /\ queue_'[i][1] >= it[1]
              /\ SubSeq(queue_', 1, i - 1) \o SubSeq(queue_', i + 1, Len(queue_'))
                    = Tail(queue_)
      ]_vars

\* a cell of a seeded ball of five with no empty neighbor has been put back
\* in the queue by a refused division: no id was issued after construction
C17_Witness ==
    /\ pc = "grow"
    /\ conf.local_density_effect = "step"
    /\ conf.initial_size = 5
    /\ id_tail_ = 9
    /\ time_ = 1
    /\ \E i \in DOMAIN queue_ :
          /\ queue_[i][1] = 2
          /\ num_empty_neighbors(cells, extant_cells_, cells[queue_[i][2]].coord) = 0

\* C18: under the step policies a division attempt is refused exactly when
\* the mother's site has no empty neighbor: insert(daughter) returns false
\* in that case and true otherwise, and the birth event of grow issues no id
\* exactly then. insert_adjacent on a copy of a dispatched cell or of a cell
\* whose neighbor sites are all taken, standing on the site of the original,
\* fails if and only if no neighbor site is empty; on failure it leaves the coord of
\* the cell and the occupancy index as they were, on success the cell sits on
\* a neighbor site that was empty.
C18_StepRefusesIffCrowded ==
    /\ [](conf.local_density_effect = "step" \/ conf.displacement_path = "stroll" =>
          \A m \in {x \in extant_cells_ :
                      \/ Dispatching /\ x = mother
                      \/ num_empty_neighbors(cells, extant_cells_, cells[x].coord) = 0} :
          \A d0 \in CopyCell(cells[m]) :
            LET cs == Append(cells, d0)
                daughter == Len(cells) + 1
                n == num_empty_neighbors(cells, extant_cells_, cells[m].coord)
            IN  /\ conf.local_density_effect = "step" =>
                      \A r \in insert(cs, extant_cells_, daughter) : r.ok <=> n > 0
                /\ \A o \in insert_adjacent(cs, extant_cells_, daughter) :
                      /\ o.ok <=> n > 0
                      /\ ~o.ok => o.cells = cs /\ o.extant = extant_cells_
                      /\ o.ok =>
                            /\ o.extant = extant_cells_ \cup {daughter}
                            /\ o.cells = SetCoord(cs, daughter, o.cells[daughter].coord)
                            /\ o.cells[daughter].coord \in neighbors(cells[m].coord)
                            /\ find(extant_cells_, cs, o.cells[daughter].coord) = {})
    /\ [][(/\ conf.local_density_effect = "step"
            /\ Dispatching
            /\ cells[mother].next_event = "birth") =>
              (id_tail_' = id_tail_ <=>
                 num_empty_neighbors(cells, extant_cells_, cells[mother].coord) = 0)
         ]_vars

\* under step/mindrag the origin cell of a seeded ball of five, all of whose
\* neighbors are taken, was dispatched for birth and put back without dividing
C18_Witness ==
    /\ pc = "grow"
    /\ conf.local_density_effect = "step"
    /\ conf.displacement_path = "mindrag"
    /\ size = 5
    /\ \E i \in DOMAIN queue_ :
          /\ queue_[i][1] > time_
          /\ cells[queue_[i][2]].coord = <<0, 0>>
          /\ cells[queue_[i][2]].next_event = "birth"
          /\ find(extant_cells_, cells, <<0, 0>>) = {queue_[i][2]}
          /\ \A v \in neighbors(<<0, 0>>) : find(extant_cells_, cells, v) # {}

C20_ExactlyResistantKeepValues ==
    [][(pc = "idle" /\ caller' = "treatment" /\ pc' = "grow") =>
        LET k == IF conf.num_resistant_cells < size
                 THEN conf.num_resistant_cells ELSE size
            alpha(rs, c) == rs[c.event_rates].death_prob
            kept == {x \in extant_cells_ :
                        /\ alpha(rates', cells'[x]) = alpha(rates, cells[x])
                        /\ cells'[x].next_event = cells[x].next_event}
        IN  /\ Cardinality(kept) = k
            /\ \A x \in extant_cells_ \ kept :
                  alpha(rates', cells'[x]) = conf.treatment
            /\ queue_' = queue_
            /\ extant_cells_' = extant_cells_
      ]_vars

\* C20: the marking step of treatment leaves exactly
\* min(num_resistant_cells, n) extant cells untouched (same EventRates object
\* with the same contents, same next_event); every other extant cell gets an
\* EventRates object of its own that differs from its old one in death_prob
\* only, which equals the argument, and a next_event drawn from birth and
\* death. So at least that many cells keep the values of death_prob and
\* next_event, and exactly that many when the argument differs from the
\* death_prob of every cell. The queue, the occupancy index and the coords
\* are unchanged.
C20_ExactlyResistantUntouched ==
    [][(pc = "idle" /\ caller' = "treatment" /\ pc' = "grow") =>
        LET k == IF conf.num_resistant_cells < size
                 THEN conf.num_resistant_cells ELSE size
            alpha(rs, c) == rs[c.event_rates].death_prob
            untouched == {x \in extant_cells_ :
                             cells'[x].event_rates = cells[x].event_rates}
            kept == {x \in extant_cells_ :
                        /\ alpha(rates', cells'[x]) = alpha(rates, cells[x])
                        /\ cells'[x].next_event = cells[x].next_event}
        IN  /\ Cardinality(untouched) = k
            /\ \A x \in untouched :
                  /\ cells'[x] = cells[x]
                  /\ rates'[cells[x].event_rates] = rates[cells[x].event_rates]
            /\ \A x \in extant_cells_ \ untouched :
                  /\ cells'[x].event_rates > Len(rates)
                  /\ \A y \in extant_cells_ \ {x} :
                        cells'[y].event_rates # cells'[x].event_rates
                  /\ rates'[cells'[x].event_rates] =
                        [rates[cells[x].event_rates] EXCEPT !.death_prob = conf.treatment]
                  /\ cells'[x].next_event \in {"birth", "death"}
                  /\ cells'[x] = [cells[x] EXCEPT
                                    !.event_rates = cells'[x].event_rates,
                                    !.next_event = cells'[x].next_event]
            /\ untouched \subseteq kept
            /\ (\A x \in extant_cells_ : alpha(rates, cells[x]) # conf.treatment) =>
                  kept = untouched
            /\ queue_' = queue_
            /\ extant_cells_' = extant_cells_
      ]_vars

\* treatment was called with the death_prob the cells already had: next to a
\* cell on the EventRates object of the constructor there is a marked cell on
\* a copy, with the same death_prob
C20_Witness ==
    /\ caller = "treatment"
    /\ pc = "grow"
    /\ conf.init_event_rates.death_prob = conf.treatment
    /\ \E x, y \in extant_cells_ :
          /\ cells[x].event_rates = 1
          /\ cells[y].event_rates > 1
          /\ rates[cells[x].event_rates].death_prob = conf.treatment
          /\ rates[cells[y].event_rates].death_prob = conf.treatment

\* C21 as stated: the loop started by treatment ends only on a step that
\* empties the population or at a test that finds size() at or above the
\* starting size plus 10 * num_resistant_cells + 10.
C21_TreatmentStopsOnSizeOnly ==
    [][(pc = "grow" /\ caller = "treatment" /\ pc' = "returned") =>
          (extant_cells_' = {} \/ size >= max_size)]_vars

\* C21: treatment starts the loop with max_size = size() + 10 *
\* num_resistant_cells + 10 and max_time = DBL_MAX, and both stay as they are
\* while the loop runs. The loop ends exactly on a step that empties the
\* population, at a test that finds size() >= max_size, or at a test that
\* finds the earliest event at infinite time (every cell left has no event to
\* wait for); no finite event time ends it.
C21_TreatmentStops ==
    [][/\ (pc = "idle" /\ caller' = "treatment") =>
             /\ max_size' = size + 10 * conf.num_resistant_cells + 10
             /\ max_time' = DBL_MAX
             /\ pc' = "grow"
       /\ (pc = "grow" /\ caller = "treatment") =>
             /\ max_size' = max_size
             /\ max_time' = max_time
             /\ caller' = caller
             /\ pc' = "returned" <=>
                   \/ extant_cells_' = {}
                   \/ size >= max_size
                   \/ it[1] = Inf
             /\ it[1] < Inf => time_' = it[1] /\ it[1] <= MaxTime
      ]_vars

\* treatment has returned with a cell left that is scheduled at infinite
\* time, below the size it was to reach
C21_Witness ==
    /\ pc = "returned"
    /\ caller = "treatment"
    /\ success
    /\ time_ = Inf
    /\ extant_cells_ # {}
    /\ size < max_size

\* C22 as stated: treatment with three resistant cells on a tissue of 1000
\* cells has halted once the size is 1010 or the population is extinct, so
\* its loop never runs at 1010 cells or more.
C22_HaltsAt1010 ==
    (caller = "treatment" /\ pc = "grow") => (0 < size /\ size < 1010)

\* C22: treatment with three resistant cells on a tissue of 1000 cells runs
\* its loop with max_size 1040; it has returned only with no cell left or
\* with 1040 cells, and while it runs the size stays above 0 and at most 1040.
C22_HaltsAt1040 ==
    /\ caller = "treatment" => max_size = 1040
    /\ (caller = "treatment" /\ pc = "returned") => size \in {0, 1040}
    /\ (caller = "treatment" /\ pc = "grow") => (0 < size /\ size <= 1040)

\* the loop of treatment is running on more than 1010 cells
C22_Witness ==
    /\ caller = "treatment"
    /\ pc = "grow"
    /\ size = 1025

\* C23: plateau(duration) called at time t0 empties the queue and starts the
\* loop over the extant cells with max_size = SIZE_MAX and max_time = t0 +
\* duration. Each pass of that loop leaves the clock alone and gives one cell
\* that has no entry one entry at a time >= t0, so that grow starts with
\* exactly one entry per extant cell and none older than t0. The loop of grow
\* keeps both limits, never finds size() >= max_size, and ends exactly when
\* the next event time exceeds t0 + duration or a death empties the
\* population. When plateau has returned with cells left, the queue is not
\* empty and time_ > t0 + duration.
C23_Plateau ==
    /\ [][ /\ (pc = "idle" /\ caller' = "plateau") =>
                 /\ queue_' = << >>
                 /\ max_size' = SIZE_MAX
                 /\ max_time' = TAdd(time_, conf.plateau)
                 /\ time_' = time_
                 /\ extant_cells_' = extant_cells_
                 /\ pc' = "plateau"
           /\ (pc = "plateau") =>
                 /\ caller = "plateau"
                 /\ time_' = time_
                 /\ extant_cells_' = extant_cells_
                 /\ max_time' = max_time
                 /\ max_size' = max_size
                 /\ Len(queue_') = Len(queue_) + 1
                 /\ \E i \in DOMAIN queue_' :
                       /\ queue_'[i][2] \in extant_cells_ \ Queued(queue_)
                       /\ queue_'[i][1] >= time_
                       /\ SubSeq(queue_', 1, i - 1) \o SubSeq(queue_', i + 1, Len(queue_'))
                             = queue_
                 /\ pc' \in {"plateau", "grow"}
                 /\ pc' = "grow" =>
                       /\ Queued(queue_') = extant_cells_
                       /\ Len(queue_') = size
                       /\ \A i \in DOMAIN queue_' : queue_'[i][1] >= time_
           /\ (pc = "grow" /\ caller = "plateau") =>
                 /\ max_time' = max_time
                 /\ max_size' = max_size
                 /\ size < max_size
                 /\ pc' = "returned" <=> (it[1] > max_time \/ extant_cells_' = {})
         ]_vars
    /\ []((pc = "returned" /\ caller = "plateau" /\ extant_cells_ # {}) =>
            /\ queue_ # << >>
            /\ time_ > max_time
            /\ success)

\* plateau has returned at a finite time with cells left
C23_Witness ==
    /\ pc = "returned"
    /\ caller = "plateau"
    /\ extant_cells_ # {}
    /\ queue_ # << >>
    /\ time_ < Inf
    /\ time_ > max_time

\* C24: on a tissue at rest, generate_neutral_mutations(mu, ensure) returns,
\* when ensure is true, the ids 1..id_tail_ in increasing order followed by
\* the k drawn ids, and when ensure is false the k drawn ids alone; every id
\* returned lies in 1..id_tail_; with mu = 0 the result is exactly 1..id_tail_
\* for ensure true and empty for ensure false.
C24_NeutralMutations ==
    pc = "idle" =>
        \A mu \in 0..1, ensure \in BOOLEAN :
        \A mutants \in generate_neutral_mutations(mu, ensure) :
            LET base == IF ensure THEN id_tail_ ELSE 0
                k == Len(mutants) - base
            IN  /\ k \in poisson(mu * id_tail_)
                /\ \A i \in 1..base : mutants[i] = i
                /\ \A i \in DOMAIN mutants : mutants[i] \in 1..id_tail_
                /\ mu = 0 => mutants = [i \in 1..base |-> i]

\* after two divisions a result holds the ids 1..5 followed by a drawn id
C24_Witness ==
    /\ pc = "idle"
    /\ id_tail_ = 5
    /\ <<1, 2, 3, 4, 5, 3>> \in generate_neutral_mutations(1, TRUE)
    /\ << >> \in generate_neutral_mutations(0, FALSE)

\* C25: for a vector of sampled extant cells of a tissue at rest (grown from
\* one cell with random pushes) and the mutants generate_neutral_mutations
\* returns, write_segsites reports as s the
\* number of mutants whose id is the id of, or of an ancestor of, some but
\* not all of the samples; when s > 0 it writes one row per sample, of s
\* entries 0 or 1, the entry telling whether the sample carries the site, and
\* every column written has a 1 and a 0; when s = 0 it writes no row.
C25_Segsites ==
    (/\ pc = "idle"
     /\ conf.displacement_path = "random"
     /\ conf.local_density_effect = "const"
     /\ conf.initial_size = 1
     /\ conf.treatment = 0
     /\ conf.RATE_DEATH = 0) =>
        \A samples \in Samples, ensure \in BOOLEAN :
        \A mutants \in generate_neutral_mutations(1, ensure) :
            LET out == write_segsites(cells, samples, mutants)
                n == Len(samples)
                carriers(i) ==
                    {j \in 1..n :
                        \/ mutants[i] = cells[samples[j]].id
                        \/ mutants[i] \in AncestorIds(cells, cells[samples[j]].ancestor)}
                sites == {i \in DOMAIN mutants :
                            carriers(i) # {} /\ carriers(i) # 1..n}
                site(m) == CHOOSE i \in sites : Cardinality({k \in sites : k < i}) = m - 1
            IN  /\ out.s = Cardinality(sites)
                /\ Len(out.rows) = IF out.s > 0 THEN n ELSE 0
                /\ \A j \in DOMAIN out.rows :
                      /\ DOMAIN out.rows[j] = 1..out.s
                      /\ \A m \in 1..out.s :
                            out.rows[j][m] = IF j \in carriers(site(m)) THEN 1 ELSE 0
                /\ \A m \in 1..out.s :
                      /\ \E j \in 1..n : out.rows[j][m] = 1
                      /\ \E j \in 1..n : out.rows[j][m] = 0

\* two sampled cells of a tissue of three differ at a site
C25_Witness ==
    /\ pc = "idle"
    /\ conf.displacement_path = "random"
    /\ conf.local_density_effect = "const"
    /\ conf.initial_size = 1
    /\ conf.treatment = 0
    /\ conf.RATE_DEATH = 0
    /\ size = 3
    /\ \E samples \in Samples :
       \E mutants \in generate_neutral_mutations(1, TRUE) :
          /\ Len(samples) = 2
          /\ write_segsites(cells, samples, mutants).s >= 2

\* C26: in every geometry the directions are pairwise distinct nonzero
\* vectors, 4 (Neumann 2D), 6 (Neumann 3D), 8 (Moore 2D), 26 (Moore 3D),
\* 6 (Hexagonal 2D) and 12 (Hexagonal 3D) of them, and max_neighbors()
\* equals that count; the tissue works with exactly that list
C26_Directions ==
    init_coord(conf.coordinate) = NoError =>
    LET two == conf.dimensions = 2
        built == CASE conf.coordinate = "neumann" ->
                        IF two THEN Neumann2D ELSE Neumann3D
                   [] conf.coordinate = "moore" ->
                        IF two THEN Moore2D ELSE Moore3D
                   [] conf.coordinate = "hex" ->
                        IF two THEN Hexagonal2D ELSE Hexagonal3D
        n == CASE conf.coordinate = "neumann" -> IF two THEN 4 ELSE 6
               [] conf.coordinate = "moore" -> IF two THEN 8 ELSE 26
               [] conf.coordinate = "hex" -> IF two THEN 6 ELSE 12
    IN  /\ built.dimensions = conf.dimensions
        /\ Len(built.directions_) = n
        /\ built.max_neighbors_ = n
        /\ \A i, j \in 1..Len(built.directions_) :
              i # j => built.directions_[i] # built.directions_[j]
        /\ \A i \in 1..Len(built.directions_) :
              /\ Len(built.directions_[i]) = conf.dimensions
              /\ \E k \in 1..conf.dimensions : built.directions_[i][k] # 0
        /\ directions(conf.coordinate) = built.directions_
        /\ Cardinality(DirectionSet) = built.max_neighbors_
        /\ origin \notin neighbors(origin)

\* a three-dimensional Moore tissue has placed a daughter on one of the 26
\* neighbors of the origin
C26_Witness ==
    /\ conf.coordinate = "moore" /\ conf.dimensions = 3
    /\ pc = "idle" /\ size = 2
    /\ Cardinality(DirectionSet) = 26
    /\ \E e \in extant_cells_ : cells[e].coord \in neighbors(origin)

\* C27: the constructor succeeds exactly for the nine pairs of local
\* density effect and displacement path (const with random, mindrag,
\* minstraight, roulette, stroll; step with random, mindrag; linear with
\* random, mindrag) under a coordinate name neumann, moore or hex; any other
\* pair or coordinate name raises an error that names the offending value
\* and lists the accepted ones, before any cell is created or scheduled
C27_ConstructorErrors ==
    /\ [](LET nine == { <<"const", "random">>, <<"const", "mindrag">>,
                        <<"const", "minstraight">>, <<"const", "roulette">>,
                        <<"const", "stroll">>, <<"step", "random">>,
                        <<"step", "mindrag">>, <<"linear", "random">>,
                        <<"linear", "mindrag">> }
              names == { "neumann", "moore", "hex" }
              pair == <<conf.local_density_effect, conf.displacement_path>>
              accepted == pair \in nine /\ conf.coordinate \in names
          IN  /\ pc \notin {"new", "error"} =>
                    accepted /\ runtime_error = NoError
              /\ pc = "error" =>
                   /\ ~accepted
                   /\ cells = << >> /\ extant_cells_ = {} /\ queue_ = << >>
                   /\ history_ = << >> /\ id_tail_ = 0
                   /\ IF conf.coordinate \notin names
                      THEN /\ runtime_error.value = <<conf.coordinate>>
                           /\ runtime_error.choose_from = { <<k>> : k \in names }
                      ELSE /\ runtime_error.value = pair
                           /\ runtime_error.choose_from = nine)
    /\ [][ /\ pc = "new" => pc' \in {"ctor", "error"}
           /\ pc = "error" => pc' = "error" ]_vars

\* a step / roulette tissue on a valid lattice was refused
C27_Witness ==
    /\ pc = "error"
    /\ conf.coordinate = "hex"
    /\ conf.local_density_effect = "step"
    /\ conf.displacement_path = "roulette"
    /\ runtime_error.value = <<"step", "roulette">>
    /\ cells = << >>

C29_PushShiftsTheRay ==
    (Dispatching /\ cells[mother].next_event = "birth") =>
        \A dir \in DirectionSet :
            LET M == cells[mother].coord
                daughter == Len(cells) + 1
                cs == Append(cells, [cells[mother] EXCEPT !.id = 0])
                n == steps_to_empty(cs, extant_cells_, M, dir)
                at(k) == [i \in DOMAIN M |-> M[i] + k * dir[i]]
                r == push(cs, extant_cells_, daughter, dir, MaxPush)
                onray(e) == {k \in 1..(n - 1) : cs[e].coord = at(k)}
            IN  /\ r.done
                /\ r.cells[daughter].coord = at(1)
                /\ r.extant = extant_cells_ \cup {daughter}
                /\ \A e \in extant_cells_ :
                      /\ \A k \in onray(e) : r.cells[e].coord = at(k + 1)
                      /\ onray(e) = {} => r.cells[e].coord = cs[e].coord
                /\ r.cells[mother].coord = M
                /\ find(extant_cells_, cs, at(n)) = {}
                /\ Cardinality(find(r.extant, r.cells, at(n))) = 1
                /\ \A k \in 1..n : Cardinality(find(r.extant, r.cells, at(k))) = 1
                /\ \A e \in r.extant : r.cells[e] = [cs[e] EXCEPT !.coord = r.cells[e].coord]

\* a birth is being dispatched whose push along some direction moves two
\* residents one site further and fills the third site of the ray
C29_Witness ==
    /\ Dispatching /\ cells[mother].next_event = "birth"
    /\ \E dir \in DirectionSet :
          LET M == cells[mother].coord
              cs == Append(cells, [cells[mother] EXCEPT !.id = 0])
              r == push(cs, extant_cells_, Len(cells) + 1, dir, MaxPush)
          IN  /\ steps_to_empty(cs, extant_cells_, M, dir) = 3
              /\ r.done
              /\ Cardinality({e \in extant_cells_ :
                                 r.cells[e].coord # cs[e].coord}) = 2

\* C30: push_minimum_drag produces the globally shortest chain: on every
\* occupancy the number of resident cells a birth on site M displaces is the
\* minimum over all sequences of neighbor steps that lead from M to an empty
\* site
C30_GloballyShortestChain ==
    [][(pc = "insert" /\ pc' = "inserted") =>
        LET RECURSIVE nearest(_, _)
            nearest(frontier, k) ==
                LET next == UNION {neighbors(v) : v \in frontier}
                IN  IF \E v \in next : find(extant_cells_, cells, v) = {}
                    THEN k
                    ELSE nearest(next, k + 1)
            displaced == {e \in extant_cells_ : cells'[e].coord # cells[e].coord}
        IN  Cardinality(displaced) = nearest({cells[1].coord}, 1) - 1
      ]_vars

\* C31: when the site of the dividing cell has a free neighbor,
\* roulette_direction returns a direction that points to a free neighbor, so
\* the daughter of a const / roulette birth lands on a neighbor of the mother
\* that was empty and no resident is displaced
C31_RouletteTakesFreeNeighbor ==
    [][(/\ conf.displacement_path = "roulette"
        /\ Dispatching
        /\ cells[mother].next_event = "birth"
        /\ id_tail_' = id_tail_ + 2
        /\ num_empty_neighbors(cells, extant_cells_, cells[mother].coord) > 0)
       => LET daughter == Len(cells) + 1
          IN  /\ cells'[daughter].coord \in neighbors(cells[mother].coord)
              /\ find(extant_cells_, cells, cells'[daughter].coord) = {}
              /\ \A e \in extant_cells_ : cells'[e].coord = cells[e].coord
      ]_vars

\* C32: migrate(moving) with moving on site p ends with moving on a neighbor
\* site q of p; if q held a resident, the resident ends on p and the set of
\* occupied sites is unchanged; if q was empty, p becomes empty; in both
\* cases size() and the coord of every other cell are unchanged
C32_Migrate ==
    [][(Dispatching /\ cells[mother].next_event = "migration") =>
        LET moving == mother
            p == cells[moving].coord
            q == cells'[moving].coord
            resident == find(extant_cells_, cells, q)
            occupied == {cells[e].coord : e \in extant_cells_}
            occupied_after == {cells'[e].coord : e \in extant_cells_'}
        IN  /\ q \in neighbors(p)
            /\ moving \in extant_cells_'
            /\ extant_cells_' = extant_cells_
            /\ Cardinality(extant_cells_') = size
            /\ IF resident # {}
               THEN /\ \A e \in resident : cells'[e].coord = p
                    /\ occupied_after = occupied
               ELSE /\ p \notin occupied_after
                    /\ occupied_after = (occupied \ {p}) \cup {q}
            /\ \A e \in DOMAIN cells \ (resident \cup {moving}) :
                  cells'[e].coord = cells[e].coord
      ]_vars

\* the two seed cells have exchanged their sites, which on this part of the
\* lattice takes a migration onto an occupied site
C32_Witness ==
    /\ conf.init_event_rates.migra_rate > 0
    /\ pc = "grow"
    /\ size = 2 /\ Len(history_) = 1
    /\ cells[1].coord = sphere(2)[2]
    /\ cells[2].coord = origin
    /\ extant_cells_ = {1, 2}

\* C33: delta_time selects the next event as follows: when t_birth is the
\* least of the three waiting times the event is birth (or death, with
\* probability alpha) and t_birth is returned; otherwise, when
\* t_death <= t_migra, equality included (for instance both infinite), the
\* event is death and t_death is returned; the event is migration only when
\* t_migra < t_death
C33_SelectEvent ==
    \A x \in extant_cells_ :
    \A tb \in t_birth(rates, cells[x]), td \in t_death(rates, cells[x]),
       tm \in t_migra(rates, cells[x]) :
    \A b \in bernoulli(rates[cells[x].event_rates].death_prob) :
        LET o == select_event(tb, td, tm, b)
        IN  /\ o \in delta_time(rates, cells[x])
            /\ IF tb < td /\ tb < tm
               THEN o[1] = tb /\ o[2] = (IF b THEN "death" ELSE "birth")
               ELSE IF td <= tm
               THEN o = <<td, "death">>
               ELSE o = <<tm, "migration">>

\* C34: an event whose rate is 0 for a cell is never recorded as that cell's
\* next_event and never scheduled: a queued cell waits for a birth only with
\* a positive birth rate and divisions left, for a death only with a positive
\* death rate or a positive death probability at division, and for a
\* migration only with a positive migration rate; in particular a cell with
\* all three events disabled is not scheduled for a migration
C34_DisabledEventsNeverScheduled ==
    \A i \in DOMAIN queue_ :
        LET x == queue_[i][2]
            r == rates[cells[x].event_rates]
            dividing == cells[x].proliferation_capacity > 0 /\ r.birth_rate > 0
        IN  x \in extant_cells_ =>
            /\ cells[x].next_event = "birth" => dividing
            /\ cells[x].next_event = "death" =>
                  r.death_rate > 0 \/ (dividing /\ r.death_prob > 0)
            /\ cells[x].next_event = "migration" => r.migra_rate > 0

\* C35: within one grow call a snapshot of the early growth is appended
\* after an event exactly while every event of the call so far has ended with
\* size() below recording_early_growth; once an event ends with size() at or
\* above it, nothing is appended for the rest of the call, even when deaths
\* bring size() below it again
C35_EarlyGrowthRecording ==
    /\ [](pc = "grow" =>
            recording_early_growth \in
                {0, IF caller = "grow" THEN conf.recording_early_growth ELSE 0})
    /\ [][pc = "grow" =>
           LET ended == /\ Dispatching
                        /\ ~(cells[mother].next_event = "birth"
                             /\ id_tail_' = id_tail_)
                        /\ extant_cells_' # {}
               block == [time |-> time_',
                         ids |-> {cells'[e].id : e \in extant_cells_'}]
           IN  /\ snapshots_' # snapshots_ =>
                     /\ ended
                     /\ recording_early_growth = conf.recording_early_growth
                     /\ Cardinality(extant_cells_') < conf.recording_early_growth
                     /\ snapshots_' = Append(snapshots_, block)
                     /\ recording_early_growth' = recording_early_growth
               /\ (ended /\ Cardinality(extant_cells_') < recording_early_growth)
                     => snapshots_' = Append(snapshots_, block)
               /\ (ended /\ Cardinality(extant_cells_') >= recording_early_growth)
                     => recording_early_growth' = 0
               /\ (recording_early_growth = 0 /\ pc' = "grow")
                     => recording_early_growth' = 0 /\ snapshots_' = snapshots_
      ]_vars

\* the first division was recorded, the second has ended the recording, a
\* death has brought the tissue back to two cells, and snapshots_ still holds
\* the block of the start of the call and that of the first division only
C35_Witness ==
    /\ conf.recording_early_growth = 3
    /\ pc = "grow"
    /\ recording_early_growth = 0
    /\ size = 2
    /\ Len(history_) >= 3
    /\ Len(snapshots_) = 2
    /\ Cardinality(snapshots_[2].ids) = 2

\* C36: after construction and after every event of the growth loop
\* size() + |history| = id_tail_, and the ids of the cells in history together
\* with the ids of the extant cells are exactly the numbers 1..id_tail_, each
\* occurring once
C36_IdsAccountedFor ==
    LET archived == Range(history_)
        recorded == archived \cup extant_cells_
    IN  /\ size + Len(history_) = id_tail_
        /\ Cardinality(archived) = Len(history_)
        /\ archived \cap extant_cells_ = {}
        /\ {cells[h].id : h \in recorded} = 1..id_tail_
        /\ \A g \in recorded, h \in recorded : g # h => cells[g].id # cells[h].id

\* two divisions and a death: two cells are left, three are in history, one
\* of them by its death
C36_Witness ==
    /\ pc = "grow"
    /\ id_tail_ = 5
    /\ size = 2
    /\ Len(history_) = 3
    /\ \E i \in DOMAIN history_ : cells[history_[i]].id > 3

C38_CoordSetOutsideIndex ==
    /\ [](\A a \in extant_cells_, b \in extant_cells_ :
             a # b => cells[a].coord # cells[b].coord)
    /\ [][/\ \A h \in DOMAIN cells :
                cells'[h].coord # cells[h].coord => h \notin extant_cells_
          /\ frame.at \in {"swap_existing", "try", "insert"}
                => frame.moving \notin extant_cells_
          /\ frame.at = "set_coord_existing"
                => frame.existing \notin extant_cells_
          /\ (frame.method = "stroll" /\ frame.at = "swap_existing")
                => find(extant_cells_, cells, cells[frame.moving].coord) # {}
         ]_vars

\* stroll has returned after a failed insert_adjacent and a swap: the cell it
\* placed last is a resident it had displaced
C38_Witness ==
    /\ frame.method = "stroll"
    /\ frame.at = "return"
    /\ frame.moving \in 2..(Len(cells) - 1)
    /\ cells[Len(cells)].coord \in neighbors(origin)
    /\ extant_cells_ = DOMAIN cells

\* C39: on each geometry, two or three dimensional, graph_distance(v) is the
\* length of the shortest sequence of steps along directions() that leads
\* from the origin to v; in particular it is 1 exactly when v is one of the
\* directions
C39_GraphDistanceIsShortestPath ==
    (frame.method = "graph_distance" /\ frame.at = "return") =>
        LET RECURSIVE shortest(_, _)
            shortest(reached, k) ==
                IF frame.v \in reached THEN k
                ELSE shortest(reached \cup
                              {VAdd(p, d) : p \in reached, d \in DirectionSet},
                              k + 1)
        IN  /\ frame.result = shortest({origin}, 0)
            /\ frame.result = 1 <=> frame.v \in DirectionSet

\* C40: during grow, entered with size() <= max_size, size() never exceeds
\* max_size, each dispatched event changes size() by at most one, and when
\* the loop is left because of the size cap (not because the next event lies
\* beyond max_time) size() equals max_size
C40_SizeCap ==
    /\ [](pc = "grow" => size <= max_size)
    /\ [][/\ pc = "grow" => Cardinality(extant_cells_') - size \in {-1, 0, 1}
          /\ (pc = "idle" /\ pc' = "grow") =>
                (UNCHANGED extant_cells_ /\ size <= max_size')
          /\ (pc = "grow" /\ pc' = "returned" /\ success' /\ ~(time_' > max_time))
                => Cardinality(extant_cells_') = max_size
         ]_vars

\* grow has returned at the size cap after births, before max_time
C40_Witness ==
    /\ pc = "returned"
    /\ caller = "grow"
    /\ success
    /\ ~(time_ > max_time)
    /\ time_ > 0
    /\ size = max_size
    /\ size > conf.initial_size

====
